---- MODULE Spec2Model ----
(***************************************************************************)
(* A model of the bot framework: Bot.process_message (bot/main.py) with    *)
(* the conversation rows of the SQL storage, the commands play, skip,      *)
(* join, help and yt, and the MediaPlayer (bot/media/base.py) with its     *)
(* poll task, over a Transport whose audio state (connected, streaming)    *)
(* the environment changes.                                                *)
(*                                                                         *)
(* One guild with one voice channel is modelled, so there is one media     *)
(* player hash.  Command handlers run as one step each; the poll task      *)
(* yields at its asyncio.sleep(1), so one iteration is two steps           *)
(* (PollRead, PollWake) and commands and the environment run in between.   *)
(*                                                                         *)
(* Spec is the message handling of the Bot: every message of Messages,     *)
(* from users in and out of the voice channel, with the Transport's        *)
(* send_response working or failing.  SpecPlayer is the media player at    *)
(* work: the commands that drive it, its poll task, and the environment    *)
(* ending tracks and dropping the voice connection.                        *)
(***************************************************************************)
EXTENDS Integers, Sequences, FiniteSets, TLC

\* ------------------------------------------------------------ bounds
MaxQueue == 2
MaxElapsed == 2
MaxTasks == 1
NumAuthors == 1
MaxPage == 2
MaxCallers == 3
MaxCalls == 2
MaxClasses == 2
MaxLive == 2
MaxFound == 2
MaxDrain == 3

\* ------------------------------------------------------ program constants
PageSize == 10
PollInterval == 1

\* ------------------------------------------------------------- values
NoMedia == ""
NoTask == 0
NoInstance == 0
TaskIds == 1..MaxTasks
TaskSlots == 1..MaxLive
Callers == 1..MaxCallers
Authors == 1..NumAuthors

\* The message texts the model feeds in, each already a sequence of its
\* whitespace-separated words (what str.split() returns).
UrlMp3 == "https://example.com/a.mp3"
UrlDir == "https://example.com/"
UrlNoPath == "https://example.com"
UrlYt == "https://www.youtube.com/watch?v=vid1"

\* urllib.parse.urlparse on the words above; any other word has neither
\* scheme nor hostname.  path is the path split at "/".
urlparse(w) ==
    CASE w = UrlMp3 -> [scheme |-> "https", hostname |-> "example.com", path |-> <<"", "a.mp3">>, v |-> ""]
      [] w = UrlDir -> [scheme |-> "https", hostname |-> "example.com", path |-> <<"", "">>, v |-> ""]
      [] w = UrlNoPath -> [scheme |-> "https", hostname |-> "example.com", path |-> <<>>, v |-> ""]
      [] w = UrlYt -> [scheme |-> "https", hostname |-> "www.youtube.com", path |-> <<"", "watch">>, v |-> "vid1"]
      [] OTHER -> [scheme |-> "", hostname |-> "", path |-> IF w = "" THEN <<>> ELSE <<w>>, v |-> ""]

\* The video ids the YouTube API knows, and the audio stream of each.
YtCatalogue == {"vid1"}
video_id_to_stream_url(id) == CASE id = "vid1" -> "stream:vid1" [] OTHER -> "stream:none"

\* Integration.search result sizes (videos are numbered 1..n in result order).
SearchSizes == {0, 1}
\* Video.url() of search result k.
ResultStream(k) ==
    CASE k = 1 -> "stream:r1"
      [] OTHER -> "stream:rN"

\* int(word)
IntWords == {"0", "1", "2", "3"}
int(w) == CASE w = "0" -> 0 [] w = "1" -> 1 [] w = "2" -> 2 [] w = "3" -> 3 [] OTHER -> 0

VARIABLES
    queue,          \* MediaPlayer.data.queue
    elapsed,        \* MediaPlayer.data.elapsed, in seconds
    poll_task,      \* MediaPlayer.poll_task: a task id, or NoTask for None
    tasks,          \* the live poll() tasks: id -> its position and locals
    stream,         \* Transport: the media being streamed, or NoMedia
    conn,           \* Transport: connected to the voice channel
    media_players,  \* Bot.media_players: hash -> the MediaPlayer instance, or NoInstance
    player_row,     \* Store: the media_players row of the player hash
    conversations,  \* Store: the conversations rows, by context hash
    last,           \* observation: what the step just taken did
    loads,          \* the Bot.load_media_player calls in flight, by caller
    ops,            \* the MediaPlayer operations suspended at an await, by runner
    pending,        \* the Bot.process_message calls past their load_conversation
    rec,            \* a Data record: its class (field order and marks) and its values
    out,            \* what the Data method last applied to rec returned
    registries,     \* the registry of each base class: name -> class, or NoClass
    instances,      \* the class of the instance last constructed from each registry
    bot,            \* the Bot: whether it is constructed, and the names in Bot.integrations
    second          \* the player of a second voice channel of the guild, and the channel joined

vars == <<queue, elapsed, poll_task, tasks, stream, conn, media_players,
          player_row, conversations, last, loads, ops, pending, rec, out,
          registries, instances, bot, second>>

\* What the message handlers, the poll task and the environment leave alone.
side_vars == <<loads, ops, pending, rec, out, registries, instances, bot, second>>

\* ----------------------------------------------------- Data (utils/data.py)
\* The discord CommandData of a message: guild_id, channel_id and author_id
\* are hash fields, response_message_id is the persist field.
NewCommandData(author, in_voice) ==
    [guild_id |-> 1, channel_id |-> 1, author_id |-> author,
     voice_channel_id |-> IF in_voice THEN 1 ELSE 0, response_message_id |-> 0]

\* Data.hash: the hash fields, serialised with sorted keys.
Hash(d) == <<d.author_id, d.channel_id, d.guild_id>>

ContextHashes == {Hash(NewCommandData(a, TRUE)) : a \in Authors}
PlayerHash == <<1, 1>>
\* The hashes of the media player contexts: the modelled player's, and that
\* of a second guild, whose player is only an instance in Bot.media_players.
PlayerHashes == {PlayerHash, <<1, 2>>}

\* The context hash of an author's messages.
HashOf(author) == Hash(NewCommandData(author, TRUE))
\* The conversation row of the context hash of an author's messages.
RowOf(author) == conversations[HashOf(author)]

\* Data.persist_str / Data.update_from_persist_str of the discord CommandData.
ContextPersistStr(d) == [response_message_id |-> d.response_message_id]
ContextUpdateFromPersistStr(d, s) == [d EXCEPT !.response_message_id = s.response_message_id]

\* MediaPlayerData: queue and elapsed are both persist fields.
NoPlayerRow == [present |-> FALSE, queue |-> <<>>, elapsed |-> 0]
PlayerPersistStr(m) == [present |-> TRUE, queue |-> m.queue, elapsed |-> m.elapsed]

\* The Data classes in general: a class is the declaration order of its
\* fields and the sets of fields marked persist and hash; a record is a
\* class with a value for every field.  Fields hold an int or None.
FieldNames == {"a", "b", "c"}
KeyRank(name) == CASE name = "a" -> 1 [] name = "b" -> 2 [] OTHER -> 3
FieldOrders == {<<"a", "b", "c">>, <<"c", "b", "a">>, <<"b", "c", "a">>}
None == -1
FieldValues == {None, 0, 1}
FieldDefault == None
Records ==
    [order : FieldOrders, persist : SUBSET FieldNames, hash : SUBSET FieldNames,
     v : [FieldNames -> FieldValues]]
NoRecord ==
    [order |-> <<"a", "b", "c">>, persist |-> {}, hash |-> {},
     v |-> [n \in FieldNames |-> FieldDefault]]

persist_field_names(r) == r.persist
hash_field_names(r) == r.hash

\* BaseModel.dict(include=...): the key-value pairs in declaration order.
dict(r, include) ==
    [i \in 1..Len(SelectSeq(r.order, LAMBDA n : n \in include)) |->
        <<SelectSeq(r.order, LAMBDA n : n \in include)[i],
          r.v[SelectSeq(r.order, LAMBDA n : n \in include)[i]]>>]

\* A JSON value: null or a number.
JsonEncode(x) == IF x = None THEN <<"null">> ELSE <<"number", x>>
JsonDecode(j) == IF j[1] = "null" THEN None ELSE j[2]

\* json.dumps(d, sort_keys=True) and json.dumps(d): the text, as the
\* sequence of its members.
json_dumps_unsorted(d) == [i \in 1..Len(d) |-> <<d[i][1], JsonEncode(d[i][2])>>]
json_dumps(d) ==
    SortSeq(json_dumps_unsorted(d), LAMBDA x, y : KeyRank(x[1]) < KeyRank(y[1]))

\* json.loads: a dict in the order of the text.
json_loads(text) == [i \in 1..Len(text) |-> <<text[i][1], JsonDecode(text[i][2])>>]

Keys(d) == {d[i][1] : i \in 1..Len(d)}
Lookup(d, k) == d[CHOOSE i \in 1..Len(d) : d[i][1] = k][2]

\* dict.update: the values of e replace those of d, new keys go to the end.
dict_update(d, e) ==
    [i \in 1..Len(d) |-> <<d[i][1], IF d[i][1] \in Keys(e) THEN Lookup(e, d[i][1]) ELSE d[i][2]>>]
        \o SelectSeq(e, LAMBDA kv : kv[1] \notin Keys(d))

\* BaseModel.parse_obj: a record of the class of r; a field the dict lacks
\* takes its default.
parse_obj(r, d) ==
    [r EXCEPT !.v = [n \in FieldNames |-> IF n \in Keys(d) THEN Lookup(d, n) ELSE FieldDefault]]

\* Data.update: setattr for the persist fields only.
update(r, other) ==
    [r EXCEPT !.v = [n \in FieldNames |->
                        IF n \in persist_field_names(r) THEN other.v[n] ELSE r.v[n]]]

\* Data.persist_str: the persist fields as JSON with sorted keys.
persist_str(r) == json_dumps(dict(r, persist_field_names(r)))

\* A restore that parses the persisted text alone.
RestoreFromTextAlone(r, other_persist_str) == parse_obj(r, json_loads(other_persist_str))

\* Data.update_from_persist_str.
update_from_persist_str(r, other_persist_str) ==
    update(r, parse_obj(r, dict_update(dict(r, FieldNames), json_loads(other_persist_str))))

\* hashify on a dict whose keys are not sorted.
HashifyUnsorted(d) == json_dumps_unsorted(d)

\* hashify: sha256 of the JSON text with sorted keys; the digest stands for
\* its text, sha256 being taken as injective.
hashify(d) == json_dumps(d)

\* Data.hash.
hash(r) == hashify(dict(r, hash_field_names(r)))

\* ------------------------------------------------- MediaPlayer (media/base.py)
\* The operations are functions of a machine record m: the player, the
\* Transport, the Store row, the calls made so far (m.calls) and whether an
\* exception is propagating (m.err: everything after it is skipped).
NewTask == [phase |-> "polling", is_playing |-> TRUE, is_connected |-> TRUE]
DeadTask == [phase |-> "none", is_playing |-> TRUE, is_connected |-> TRUE]

Live(ts) == {t \in DOMAIN ts : ts[t].phase # "none"}

Call(m, c) == [m EXCEPT !.calls = Append(@, c)]
Raise(m) == [m EXCEPT !.err = TRUE]

is_playing(m) == m.stream # NoMedia

\* A save callback that writes the row whatever the queue holds.
SaveKeepsEmptyRow(m) ==
    IF m.err THEN m
    ELSE Call([m EXCEPT !.row = PlayerPersistStr(m)], <<"save", "">>)

\* Bot.media_player_save, the save callback of every player of the Bot.
media_player_save(m) ==
    IF m.err THEN m
    ELSE Call([m EXCEPT !.row = IF m.queue = <<>> THEN NoPlayerRow
                                 ELSE PlayerPersistStr(m)], <<"save", "">>)

\* asyncio.create_task(self.poll()): the lowest free task id.
create_task(m) ==
    IF Live(m.tasks) = DOMAIN m.tasks THEN [m EXCEPT !.overflow = TRUE]
    ELSE LET t == CHOOSE t \in DOMAIN m.tasks : m.tasks[t].phase = "none" /\ \A u \in DOMAIN m.tasks : (u < t) => m.tasks[u].phase # "none"
         IN Call([m EXCEPT !.tasks[t] = NewTask, !.poll_task = t], <<"create_task", "">>)

\* play() without the create_task of line 94.
PlayWithoutTask(m) ==
    IF m.err THEN m
    ELSE IF is_playing(m) THEN m
    ELSE IF m.queue = <<>> THEN m
    ELSE IF ~m.conn THEN Raise(m)
    ELSE media_player_save(Call([m EXCEPT !.stream = m.queue[1]], <<"play", m.queue[1]>>))

play(m) ==
    IF m.err THEN m
    ELSE IF is_playing(m) THEN m
    ELSE IF m.queue = <<>> THEN m
    ELSE IF ~m.conn THEN Raise(m)
    ELSE media_player_save(
            create_task(Call([m EXCEPT !.stream = m.queue[1]], <<"play", m.queue[1]>>)))

\* poll_task.cancel(): the task is suspended at an await and never resumes.
cancel(m) ==
    IF m.poll_task = NoTask THEN m
    ELSE Call([m EXCEPT !.tasks[m.poll_task] = DeadTask, !.poll_task = NoTask],
              <<"cancel", "">>)

stop(m) ==
    IF m.err THEN m
    ELSE IF ~is_playing(m) THEN m
    ELSE IF m.queue = <<>> THEN Raise(m)
    ELSE media_player_save(
            Call([cancel(m) EXCEPT !.elapsed = 0, !.stream = NoMedia], <<"stop", "">>))

\* next() without the play() of line 144.
NextWithoutPlay(m) ==
    LET m1 == stop(m) IN
    IF m1.err \/ m1.queue = <<>> THEN m1
    ELSE media_player_save([m1 EXCEPT !.queue = Tail(@)])

\* next() without the queue.pop(0) of line 140.
NextKeepsHead(m) ==
    LET m1 == stop(m) IN
    IF m1.err \/ m1.queue = <<>> THEN m1
    ELSE media_player_save(play(m1))

next(m) ==
    LET m1 == stop(m) IN
    IF m1.err \/ m1.queue = <<>> THEN m1
    ELSE media_player_save(play([m1 EXCEPT !.queue = Tail(@)]))

\* enqueue() without the len(queue) == 1 test of line 178.
EnqueueAlwaysPlays(m, media) ==
    media_player_save(play([m EXCEPT !.queue = Append(@, media)]))

enqueue(m, media) ==
    LET m1 == [m EXCEPT !.queue = Append(@, media)] IN
    media_player_save(IF Len(m1.queue) = 1 THEN play(m1) ELSE m1)

\* Python list indexing: -len..len-1 are the valid indices.
ValidIndex(q, i) == -Len(q) <= i /\ i < Len(q)
Position(q, i) == IF i < 0 THEN Len(q) + i + 1 ELSE i + 1
RemoveAt(q, p) == [k \in 1..(Len(q) - 1) |-> IF k < p THEN q[k] ELSE q[k + 1]]

\* pop() without the index == 0 test of line 194.
PopAlwaysNext(m, index) ==
    IF m.err THEN m
    ELSE IF ~ValidIndex(m.queue, index) THEN Raise(m)
    ELSE LET to_return == m.queue[Position(m.queue, index)]
             m1 == next(m)
         IN IF m1.err THEN m1 ELSE [media_player_save(m1) EXCEPT !.ret = to_return]

pop(m, index) ==
    IF m.err THEN m
    ELSE IF ~ValidIndex(m.queue, index) THEN Raise(m)
    ELSE LET to_return == m.queue[Position(m.queue, index)]
             m1 == IF index = 0 THEN next(m)
                   ELSE [m EXCEPT !.queue = RemoveAt(@, Position(m.queue, index))]
         IN IF m1.err THEN m1 ELSE [media_player_save(m1) EXCEPT !.ret = to_return]

clear(m) ==
    LET m1 == stop(m) IN
    IF m1.err THEN m1 ELSE media_player_save([m1 EXCEPT !.queue = <<>>])

\* What a handler can see of the player and the Transport at one moment.
Snap(m) == [queue |-> m.queue, elapsed |-> m.elapsed, poll_task |-> m.poll_task,
            stream |-> m.stream, conn |-> m.conn, live |-> Live(m.tasks)]
NoSnap == [queue |-> <<>>, elapsed |-> 0, poll_task |-> NoTask,
           stream |-> NoMedia, conn |-> FALSE, live |-> {}]

\* The coroutines that run MediaPlayer operations: the poll task on leaving
\* its loop, and a command's process_message.
Runners == {"loop", "command"}
NoOp == [pc |-> "idle", op |-> ""]
AsyncMedia == {UrlMp3, UrlDir}

\* A caller of Bot.load_media_player that is not in a call.
NoLoad == [pc |-> "idle", hash |-> PlayerHash, player |-> NoInstance]

\* The machine record of the current state, at the start of a handler.
Machine ==
    [queue |-> queue, elapsed |-> elapsed, poll_task |-> poll_task, tasks |-> tasks,
     stream |-> stream, conn |-> conn, row |-> player_row, players |-> media_players,
     calls |-> <<>>, err |-> FALSE, overflow |-> FALSE, ret |-> NoMedia]

\* ------------------------------------------------------ Storage (sql/client.py)
NoConversation == [present |-> FALSE, command_name |-> "", command_data |-> <<>>,
                   context_data |-> [response_message_id |-> 0]]

\* Storage.load_media_player: a stored row overwrites the player's persist
\* fields, no row leaves the player as it is.
storage_load_media_player(m) ==
    IF m.row.present THEN [m EXCEPT !.queue = m.row.queue, !.elapsed = m.row.elapsed]
    ELSE m

\* ----------------------------------------------------------- Bot (main.py)
\* MediaPlayer(context): a new instance, which is none of those in the map.
NewInstance(players, h) == IF players[h] = 1 THEN 2 ELSE 1

\* media_players[hash] = MediaPlayer(context), whatever the map holds.
AssignMediaPlayer(m, h) == [m EXCEPT !.players[h] = NewInstance(m.players, h)]

\* Line 82: media_players.setdefault(hash, MediaPlayer(context)).
setdefault_media_player(m, h) ==
    IF m.players[h] # NoInstance THEN m
    ELSE [m EXCEPT !.players[h] = NewInstance(m.players, h)]

\* Bot.load_media_player: setdefault in media_players, the save callback,
\* then Storage.load_media_player.
load_media_player(m) ==
    storage_load_media_player(setdefault_media_player(m, PlayerHash))

\* ------------------------------------------- contexts (platforms/base.py)
\* A frame f is a command at work: the machine, the command's data, the
\* context data, the responses sent, and the MediaPlayer operation it called.
\* What a call of Bot.load_media_player found: whether the player was in
\* media_players already, and the queue and elapsed time it had in memory.
Was(m) == [cached |-> m.players[PlayerHash] # NoInstance, queue |-> m.queue,
           elapsed |-> m.elapsed]
NoWas == [cached |-> FALSE, queue |-> <<>>, elapsed |-> 0]

NewFrame(m, data, ctx, send_ok) ==
    [m |-> m, data |-> data, ctx |-> ctx, send_ok |-> send_ok, cont |-> FALSE,
     responses |-> <<>>, op |-> "", media |-> NoMedia, index |-> 0,
     pre |-> NoSnap, was |-> NoWas]

FRaise(f) == [f EXCEPT !.m = Raise(f.m)]

\* CommandContext.send_response -> Platform.send_response: the response
\* message id is recorded in the context data; a failing Transport raises.
send_response(f, kind) ==
    IF f.m.err THEN f
    ELSE IF ~f.send_ok THEN FRaise(f)
    ELSE [f EXCEPT !.responses = Append(@, kind), !.ctx.response_message_id = 1]

\* Platform.join_audio: connects unless already connected; a new voice
\* connection streams nothing.
platform_join_audio(m) ==
    IF m.conn THEN m ELSE [m EXCEPT !.conn = TRUE, !.stream = NoMedia]

\* CommandContext.join_audio: get_media_player_data asserts the user is in a
\* voice channel, then MediaPlayerContext.join_audio joins and loads the player.
join_audio(f) ==
    IF f.m.err THEN f
    ELSE IF f.ctx.voice_channel_id = 0 THEN FRaise(f)
    ELSE [f EXCEPT !.m = load_media_player(platform_join_audio(f.m)), !.was = Was(f.m)]

\* A call of a MediaPlayer operation from a command, with its observation.
Op(f, name, media, index, m2) ==
    IF f.m.err THEN f
    ELSE [f EXCEPT !.m = m2, !.op = name, !.media = media, !.index = index,
                   !.pre = Snap(f.m)]

\* ------------------------------------------------- split (utils/splitting.py)
\* msg.split() is the message's words; parts[0] raises on no words.
SplitFails(words) == words = <<>>
First(words) == words[1]
Rest(words) == Tail(words)

\* --------------------------------------------------- commands/play.py
PlayData == [media |-> NoMedia]

\* youtube.video_id_from_url: the v query parameter, else the last part of
\* the path; an empty id is None.
video_id_from_url(url) ==
    LET parts == urlparse(url) IN
    IF parts.v # "" THEN parts.v
    ELSE IF parts.path = <<>> THEN "" ELSE parts.path[Len(parts.path)]

ValidUrl(url) ==
    LET parts == urlparse(url) IN
    parts.hostname # "" /\ parts.scheme # "" /\ parts.path # <<>>

\* Command.process_message of play.
play_process_message(f, words) ==
    LET url == IF Len(words) >= 2 THEN words[2] ELSE ""
        video_id == video_id_from_url(url)
        f1 == IF ~ValidUrl(url) THEN FRaise(f)
              ELSE IF video_id = "" THEN [f EXCEPT !.data.media = url]
              ELSE IF video_id \notin YtCatalogue THEN FRaise(f)
              ELSE [f EXCEPT !.data.media = video_id_to_stream_url(video_id)]
        f2 == join_audio(f1)
        f3 == Op(f2, "enqueue", f1.data.media, 0, enqueue(f2.m, f1.data.media))
    IN send_response(f3, "reply")

\* --------------------------------------------------- commands/skip.py
SkipData == [media |-> NoMedia, index |-> 0]

skip_process_message(f, words) ==
    LET index == IF Len(words) >= 2 THEN words[2] ELSE "1"
        f1 == IF index \notin IntWords THEN FRaise(f) ELSE f
        f2 == join_audio(f1)
        m3 == pop(f2.m, int(index) - 1)
        f3 == Op(f2, "pop", NoMedia, int(index) - 1, m3)
        f4 == IF f3.m.err THEN f3
              ELSE [f3 EXCEPT !.data = [media |-> m3.ret, index |-> int(index)]]
    IN send_response(f4, "reply")

\* --------------------------------------------------- commands/join.py
NoData == [none |-> TRUE]

join_process_message(f, words) ==
    LET f1 == join_audio(f)
        f2 == Op(f1, "play", NoMedia, 0, play(f1.m))
    IN send_response(f2, "reply")

\* --------------------------------------------------- commands/help.py
help_process_message(f, words) == send_response(f, "reply")


\* ----------------------------------------------------- commands/yt.py
\* search_results is the number of videos found: result k is video k.
YtData == [error |-> "", state |-> "Search", search_results |-> 0, query |-> "",
           page_number |-> 1, selection |-> 0]

Min(a, b) == IF a < b THEN a ELSE b
Max(a, b) == IF a > b THEN a ELSE b

\* math.ceil(len(search_results) / page_size)
total_pages(d) == (d.search_results + PageSize - 1) \div PageSize

\* len(page()): the slice [start:end] of the results.
PageLen(d) ==
    LET start == (d.page_number - 1) * PageSize
    IN Max(0, Min(d.search_results, start + PageSize) - start)

\* set_page_number: the second assignment takes page_number, not the
\* clamped value.
set_page_number(d, page_number) == [d EXCEPT !.page_number = Max(1, page_number)]

select_video(d, index) ==
    IF 1 <= index /\ index <= PageLen(d)
    THEN [d EXCEPT !.selection = index, !.state = "Selection"]
    ELSE d

\* selected_video: the video number, 0 for None.
selected_video(d) ==
    IF d.selection # 0 THEN (d.page_number - 1) * PageSize + d.selection ELSE 0

set_search_results(d, n) ==
    [d EXCEPT !.search_results = n,
              !.state = IF n = 0 THEN "NoResults" ELSE "SearchResults"]

should_continue_conversation(d) == d.state \notin {"Selection", "NoResults", "Cancelled"}

\* str.lower on the words of the model.
lower(w) == CASE w = "NEXT" -> "next" [] OTHER -> w

Returns(f, value) == IF f.m.err THEN f ELSE [f EXCEPT !.cont = value]

\* Command.process_message of yt; found is what Integration.search returns.
yt_process_message(f, words, found) ==
    LET f0 == [f EXCEPT !.data.error = ""] IN
    IF f0.data.state = "Search" THEN
        LET query == IF Len(words) >= 2 THEN words[2] ELSE ""
            f1 == [f0 EXCEPT !.data = [YtData EXCEPT !.query = query]]
            f2 == send_response(f1, "reply")
            f3 == IF f2.m.err THEN f2
                  ELSE [f2 EXCEPT !.data = set_search_results(f2.data, found)]
            f4 == send_response(f3, "reply")
        IN Returns(f4, should_continue_conversation(f4.data))
    ELSE IF f0.data.state = "SearchResults" THEN
        IF SplitFails(words) THEN FRaise(f0)
        ELSE LET command == lower(First(words))
                 rest == Rest(words)
             IN CASE command = "next" ->
                       LET f1 == [f0 EXCEPT !.data = set_page_number(@, @.page_number + 1)]
                           f2 == send_response(f1, "reply")
                       IN Returns(f2, should_continue_conversation(f2.data))
                  [] command = "prev" ->
                       LET f1 == [f0 EXCEPT !.data = set_page_number(@, @.page_number - 1)]
                           f2 == send_response(f1, "reply")
                       IN Returns(f2, should_continue_conversation(f2.data))
                  [] command = "cancel" ->
                       LET f1 == [f0 EXCEPT !.data.state = "Cancelled"]
                           f2 == send_response(f1, "reply")
                       IN Returns(f2, should_continue_conversation(f2.data))
                  [] command = "play" ->
                       IF SplitFails(rest) THEN FRaise(f0)
                       ELSE IF First(rest) \notin IntWords THEN FRaise(f0)
                       ELSE LET f1 == [f0 EXCEPT !.data = select_video(@, int(First(rest)))]
                                video == selected_video(f1.data)
                            IN IF video = 0 THEN f1
                               ELSE LET f2 == join_audio(f1)
                                        media == ResultStream(video)
                                        f3 == Op(f2, "enqueue", media, 0, enqueue(f2.m, media))
                                        f4 == send_response(f3, "reply")
                                    IN Returns(f4, should_continue_conversation(f4.data))
                  [] OTHER ->
                       LET f1 == [f0 EXCEPT !.data.error = "Unknown subcommand"]
                           f2 == send_response(f1, "reply")
                       IN Returns(f2, should_continue_conversation(f2.data))
    ELSE
        LET f1 == send_response(f0, "reply")
        IN Returns(f1, should_continue_conversation(f1.data))

\* ----------------------------------------------------- commands/cw.py
\* search_results is the number of puzzles found: result k is puzzle k, and
\* game_url is the number of the puzzle whose game was fetched (0: none).
CwData == [state |-> "Search", search_results |-> 0, query |-> "",
           page_number |-> 1, game_url |-> 0, selection |-> -1]

select_puzzle(d, index) ==
    IF 1 <= index /\ index <= PageLen(d)
    THEN [d EXCEPT !.selection = index, !.state = "FetchGameURL"]
    ELSE d

\* selected_puzzle: selection is an int and never None, so the result is
\* page()[selection - 1] with Python's indexing; 0 stands for IndexError.
selected_puzzle(d) ==
    LET i == d.selection - 1
        page == PageLen(d)
    IN IF ~(-page <= i /\ i < page) THEN 0
       ELSE (d.page_number - 1) * PageSize + (IF i < 0 THEN page + i + 1 ELSE i + 1)

set_game_url(d, game_url) == [d EXCEPT !.game_url = game_url, !.state = "Selection"]

\* Command.process_message of cw; found is what Integration.search returns.
cw_process_message(f, words, found) ==
    LET f5 ==
        IF f.data.state = "Search" THEN
            LET query == IF Len(words) >= 2 THEN words[2] ELSE ""
                f1 == [f EXCEPT !.data = [CwData EXCEPT !.query = query]]
                f2 == send_response(f1, "reply")
            IN IF f2.m.err THEN f2
               ELSE [f2 EXCEPT !.data = set_search_results(f2.data, found)]
        ELSE IF f.data.state = "SearchResults" THEN
            IF SplitFails(words) THEN FRaise(f)
            ELSE LET command == First(words)
                     rest == Rest(words)
                 IN CASE command = "next" ->
                           [f EXCEPT !.data = set_page_number(@, @.page_number + 1)]
                      [] command = "prev" ->
                           [f EXCEPT !.data = set_page_number(@, @.page_number - 1)]
                      [] command = "cancel" -> [f EXCEPT !.data.state = "Cancelled"]
                      [] command = "play" ->
                           IF SplitFails(rest) THEN FRaise(f)
                           ELSE IF First(rest) \notin IntWords THEN FRaise(f)
                           ELSE LET f1 == [f EXCEPT !.data = select_puzzle(@, int(First(rest)))]
                                    f2 == send_response(f1, "reply")
                                    puzzle == selected_puzzle(f2.data)
                                    f3 == IF f2.m.err THEN f2
                                          ELSE IF puzzle = 0 THEN FRaise(f2)
                                          ELSE [f2 EXCEPT !.data = set_game_url(@, puzzle)]
                                IN send_response(f3, "reply")
                      [] OTHER -> f
        ELSE f
        f6 == send_response(f5, "reply")
    IN Returns(f6, should_continue_conversation(f6.data))

\* BaseModel.json / parse_raw of the yt and cw CommandData: the State member
\* is written as its value.
StateValue(name) ==
    CASE name = "Search" -> "search"
      [] name = "SearchResults" -> "search_results"
      [] name = "FetchGameURL" -> "fetch_game_url"
      [] name = "Selection" -> "selection"
      [] name = "NoResults" -> "no_results"
      [] OTHER -> "cancelled"
StateOfValue(value) ==
    CASE value = "search" -> "Search"
      [] value = "search_results" -> "SearchResults"
      [] value = "fetch_game_url" -> "FetchGameURL"
      [] value = "selection" -> "Selection"
      [] value = "no_results" -> "NoResults"
      [] OTHER -> "Cancelled"

\* A stored text that is not JSON; parse_raw raises on it.
Malformed == <<>>
Decodes(s) == s # Malformed

json(name, d) ==
    IF name \in {"yt", "cw"} THEN <<[d EXCEPT !.state = StateValue(@)]>> ELSE <<d>>
parse_raw(name, s) ==
    IF name \in {"yt", "cw"} THEN [s[1] EXCEPT !.state = StateOfValue(@)] ELSE s[1]

\* ------------------------------------------------- Command (commands/base.py)
\* Command.registry, as the modules of the commands fill it at import.
Registry == {"cw", "help", "join", "play", "skip", "yt"}

\* Command.__init__: self.data = self.data_cls()
DefaultData(name) ==
    CASE name = "play" -> PlayData
      [] name = "skip" -> SkipData
      [] name = "yt" -> YtData
      [] name = "cw" -> CwData
      [] OTHER -> NoData

process(name, f, words, found) ==
    CASE name = "play" -> play_process_message(f, words)
      [] name = "skip" -> skip_process_message(f, words)
      [] name = "join" -> join_process_message(f, words)
      [] name = "yt" -> yt_process_message(f, words, found)
      [] name = "cw" -> cw_process_message(f, words, found)
      [] OTHER -> help_process_message(f, words)


\* --------------------------------------------------------- observations
NoLast ==
    [kind |-> "init", author |-> 0, words |-> <<>>, restored |-> FALSE, name |-> "",
     data_in |-> NoData, data_out |-> NoData,
     cont |-> FALSE, outcome |-> "", responses |-> <<>>, op |-> "", media |-> NoMedia,
     index |-> 0, pre |-> NoSnap, calls |-> <<>>, ret |-> NoMedia,
     task |-> NoTask, is_playing |-> TRUE, is_connected |-> TRUE,
     exited |-> FALSE, malformed |-> FALSE, was |-> NoWas]

\* The machine record becomes the next state.
Commit(m) ==
    /\ queue' = m.queue
    /\ elapsed' = m.elapsed
    /\ poll_task' = m.poll_task
    /\ tasks' = m.tasks
    /\ stream' = m.stream
    /\ conn' = m.conn
    /\ media_players' = m.players
    /\ player_row' = m.row

\* --------------------------------------------- Bot.process_message (main.py)
\* The messages of the conversation specification Spec, and those of the
\* player specification SpecPlayer.
Messages ==
    {<<>>, <<"bogus">>, <<"help">>, <<"skip">>, <<"yt", "q">>, <<"next">>, <<"NEXT">>,
     <<"prev">>, <<"cancel">>, <<"play", "0">>, <<"play", "1">>, <<"play", UrlMp3>>,
     <<"play", UrlDir>>}
PlayerMessages ==
    {<<"join">>, <<"skip">>, <<"skip", "0">>, <<"skip", "2">>, <<"play", UrlDir>>,
     <<"play", UrlYt>>, <<"play", UrlMp3>>}

\* Storage.save_conversation: an existing row keeps its command_name.
save_conversation(row, name, data, ctx) ==
    [present |-> TRUE,
     command_name |-> IF row.present THEN row.command_name ELSE name,
     command_data |-> json(name, data),
     context_data |-> ContextPersistStr(ctx)]

\* Storage.delete_conversation: the row is deleted if there is one.
delete_conversation(row) == IF row.present THEN NoConversation ELSE row

\* process_message saving whatever the command returned.
SaveEvenWhenDone(row, name, data, ctx, cont) == save_conversation(row, name, data, ctx)

\* Lines 111-114: delete_conversation or save_conversation by the returned value.
persist_or_delete(row, name, data, ctx, cont) ==
    IF ~cont THEN delete_conversation(row) ELSE save_conversation(row, name, data, ctx)

\* get_command without the load_conversation of line 52.
GetCommandIgnoresStorage(row, words) ==
    [found |-> FALSE,
     failed |-> SplitFails(words) \/ First(words) \notin Registry,
     name |-> IF SplitFails(words) THEN "" ELSE First(words)]

\* get_command falling back on help for a name that is not registered.
GetCommandDefaultsToHelp(row, words) ==
    IF row.present
    THEN [found |-> TRUE, failed |-> FALSE, name |-> row.command_name]
    ELSE [found |-> FALSE,
          failed |-> SplitFails(words),
          name |-> IF SplitFails(words) THEN ""
                   ELSE IF First(words) \in Registry THEN First(words) ELSE "help"]

\* Bot.get_command: the stored conversation's command, else the command
\* named by the first word; failed when parse_raw in load_conversation,
\* split or Command.get_command raises.
get_command(row, words) ==
    IF row.present /\ ~Decodes(row.command_data)
    THEN [found |-> FALSE, failed |-> TRUE, name |-> ""]
    ELSE IF row.present
    THEN [found |-> TRUE, failed |-> FALSE, name |-> row.command_name]
    ELSE [found |-> FALSE,
          failed |-> SplitFails(words) \/ First(words) \notin Registry,
          name |-> IF SplitFails(words) THEN "" ELSE First(words)]

\* The Integration subclasses, by name, and the ones the process_message of
\* each command takes as a typed parameter.
IntegrationNames == {"youtube", "down-for-across"}
Required(name) ==
    IF name \in {"play", "yt"} THEN {"youtube"}
    ELSE IF name = "cw" THEN {"down-for-across"} ELSE {}

\* Bot.inject_integrations: the assertion of line 161 holds for every
\* Integration parameter of the command.
inject_integrations(name, integrations) == Required(name) \subseteq integrations

\* The bot that create_from_configuration builds from a configuration with
\* every integration, and no bot at all.
FullBot == [created |-> TRUE, ready |-> TRUE, integrations |-> IntegrationNames]
NoBot == [created |-> FALSE, ready |-> FALSE, integrations |-> {}]

\* The except block: send_response raises when the Transport fails, and
\* then the exception leaves process_message before the delete.
handler_completes(send_ok) == send_ok

ProcessMessage(author, words, in_voice, send_ok, found) ==
    bot.created /\
    LET ctx0 == NewCommandData(author, in_voice)
        h == Hash(ctx0)
        row == conversations[h]
        cmd == get_command(row, words)
        data == IF cmd.failed THEN NoData
                ELSE IF cmd.found THEN parse_raw(cmd.name, row.command_data)
                ELSE DefaultData(cmd.name)
        ctx == IF cmd.found THEN ContextUpdateFromPersistStr(ctx0, row.context_data) ELSE ctx0
        f0 == NewFrame(Machine, data, ctx, send_ok)
        f == IF cmd.failed \/ ~inject_integrations(cmd.name, bot.integrations) THEN FRaise(f0)
             ELSE process(cmd.name, f0, words, found)
        raised == f.m.err
        outcome == IF raised THEN (IF handler_completes(send_ok) THEN "raised" ELSE "escaped")
                   ELSE IF f.cont THEN "continued" ELSE "ended"
        row2 == CASE outcome = "escaped" -> row
                  [] outcome = "raised" -> delete_conversation(row)
                  [] OTHER -> persist_or_delete(row, cmd.name, f.data, f.ctx, f.cont)
    IN  /\ ~f.m.overflow
        /\ Len(f.m.queue) <= MaxQueue
        /\ (cmd.name \in {"yt", "cw"} /\ ~cmd.failed) => f.data.page_number <= MaxPage
        /\ Commit(f.m)
        /\ conversations' = [conversations EXCEPT ![h] = row2]
        /\ UNCHANGED side_vars
        /\ last' = [NoLast EXCEPT
                !.kind = "msg", !.author = author, !.words = words,
                !.restored = cmd.found, !.name = cmd.name,
                !.malformed = row.present /\ ~Decodes(row.command_data),
                !.data_in = data, !.data_out = f.data, !.cont = f.cont,
                !.outcome = outcome,
                !.responses = IF outcome = "raised" THEN Append(f.responses, "diagnostic")
                              ELSE f.responses,
                !.op = f.op, !.media = f.media, !.index = f.index, !.pre = f.pre,
                !.calls = f.m.calls, !.ret = f.m.ret, !.was = f.was]

\* The blob of a stored conversation is damaged in the Store.
EnvCorruptRow(author) ==
    /\ RowOf(author).present
    /\ Decodes(RowOf(author).command_data)
    /\ conversations' = [conversations EXCEPT ![HashOf(author)].command_data = Malformed]
    /\ last' = [NoLast EXCEPT !.kind = "env"]
    /\ UNCHANGED <<queue, elapsed, poll_task, tasks, stream, conn, media_players, player_row>>
    /\ UNCHANGED side_vars

\* ------------------------------- Bot.process_message, await by await
\* discord runs receive_message as a task of its own for every message.  A
\* call runs to the load_conversation of get_command, which reads the row;
\* the rest of the call, from the command to save_conversation or
\* delete_conversation, follows when the calls that ran in between are done.
Calls == 1..MaxCalls
ConvMessages == {<<"yt", "q">>, <<"next">>, <<"cancel">>, <<"help">>, <<"bogus">>}
NoCall == [pc |-> "idle", author |-> 0, words |-> <<>>, found |-> 0, row |-> NoConversation]

MessageBegin(c, author, words, found) ==
    /\ pending[c].pc = "idle"
    /\ pending' = [pending EXCEPT ![c] =
            [pc |-> "loaded", author |-> author, words |-> words, found |-> found,
             row |-> conversations[HashOf(author)]]]
    /\ last' = [NoLast EXCEPT !.kind = "begin", !.author = author, !.words = words]
    /\ UNCHANGED <<queue, elapsed, poll_task, tasks, stream, conn, media_players,
                   player_row, conversations, loads, ops, rec, out, registries, instances,
                   bot, second>>

\* Lines 52-59 and 105-114 with the row that load_conversation read; the
\* save or delete acts on the row the Store holds now.
MessageEnd(c) ==
    /\ pending[c].pc = "loaded"
    /\ LET author == pending[c].author
           words == pending[c].words
           ctx0 == NewCommandData(author, TRUE)
           h == Hash(ctx0)
           row == pending[c].row
           cmd == get_command(row, words)
           data == IF cmd.failed THEN NoData
                   ELSE IF cmd.found THEN parse_raw(cmd.name, row.command_data)
                   ELSE DefaultData(cmd.name)
           ctx == IF cmd.found THEN ContextUpdateFromPersistStr(ctx0, row.context_data) ELSE ctx0
           f0 == NewFrame(Machine, data, ctx, TRUE)
           f == IF cmd.failed \/ ~inject_integrations(cmd.name, bot.integrations) THEN FRaise(f0)
                ELSE process(cmd.name, f0, words, pending[c].found)
           outcome == IF f.m.err THEN "raised" ELSE IF f.cont THEN "continued" ELSE "ended"
           row2 == IF outcome = "raised" THEN delete_conversation(conversations[h])
                   ELSE persist_or_delete(conversations[h], cmd.name, f.data, f.ctx, f.cont)
       IN /\ ~f.m.overflow
          /\ Len(f.m.queue) <= MaxQueue
          /\ (cmd.name \in {"yt", "cw"} /\ ~cmd.failed) => f.data.page_number <= MaxPage
          /\ Commit(f.m)
          /\ conversations' = [conversations EXCEPT ![h] = row2]
          /\ pending' = [pending EXCEPT ![c] = NoCall]
          /\ last' = [NoLast EXCEPT
                  !.kind = "msg", !.author = author, !.words = words,
                  !.restored = cmd.found, !.name = cmd.name,
                  !.malformed = row.present /\ ~Decodes(row.command_data),
                  !.data_in = data, !.data_out = f.data, !.cont = f.cont,
                  !.outcome = outcome,
                  !.responses = IF outcome = "raised" THEN Append(f.responses, "diagnostic")
                                ELSE f.responses,
                  !.op = f.op, !.media = f.media, !.index = f.index, !.pre = f.pre,
                  !.calls = f.m.calls, !.ret = f.m.ret]
    /\ UNCHANGED <<loads, ops, rec, out, registries, instances, bot, second>>

\* A caller takes the player from Bot.load_media_player and clears it.
CallClear ==
    LET m1 == load_media_player(Machine)
        m2 == clear(m1)
    IN /\ Commit([m2 EXCEPT !.err = FALSE])
       /\ last' = [NoLast EXCEPT
               !.kind = "call", !.op = "clear", !.pre = Snap(m1), !.calls = m2.calls,
               !.was = Was(Machine),
               !.outcome = IF m2.err THEN "raised" ELSE "ended"]
       /\ UNCHANGED conversations
       /\ UNCHANGED side_vars

\* Platform.leave_audio: the voice client, if any, disconnects, which ends
\* its stream.
platform_leave_audio(m) ==
    IF m.err THEN m ELSE [m EXCEPT !.conn = FALSE, !.stream = NoMedia]

\* MediaPlayerContext.leave_audio: the player is taken from the Bot and
\* stopped, then the Platform leaves the voice channel.
LeaveAudio ==
    LET m1 == load_media_player(Machine)
        m2 == stop(m1)
        m3 == platform_leave_audio(m2)
    IN /\ Commit([m3 EXCEPT !.err = FALSE])
       /\ last' = [NoLast EXCEPT
               !.kind = "call", !.op = "stop", !.pre = Snap(m1), !.calls = m2.calls,
               !.was = Was(Machine),
               !.outcome = IF m2.err THEN "raised" ELSE "ended"]
       /\ UNCHANGED conversations
       /\ UNCHANGED side_vars

\* ------------------------------------------------ MediaPlayer.poll (base.py)
\* Lines 108-109: the two Transport polls, then the task sleeps.
PollRead(t) ==
    /\ tasks[t].phase = "polling"
    /\ tasks' = [tasks EXCEPT ![t] = [phase |-> "sleeping", is_playing |-> stream # NoMedia,
                                      is_connected |-> conn]]
    /\ last' = [NoLast EXCEPT !.kind = "read"]
    /\ UNCHANGED <<queue, elapsed, poll_task, stream, conn, media_players, player_row,
                   conversations>>
    /\ UNCHANGED side_vars

\* poll() calling stop() however its loop ended.
PollExitStops(m, a) == stop([m EXCEPT !.poll_task = NoTask])

\* poll() leaving its loop without next() when the track has finished.
PollExitIgnoresEnd(m, a) ==
    LET m1 == [m EXCEPT !.poll_task = NoTask] IN
    IF ~a.is_connected THEN stop(m1)
    ELSE m1

\* Lines 113-123, on leaving the loop; a holds the task's two readings.
poll_exit(m, a) ==
    LET m1 == [m EXCEPT !.poll_task = NoTask] IN
    IF ~a.is_connected THEN stop(m1)
    ELSE next(m1)

\* Lines 110-123: the sleep ends, elapsed grows, and the loop goes on or ends.
\* A task that has left its loop no longer counts as a live poll task.
PollWake(t) ==
    /\ tasks[t].phase = "sleeping"
    /\ elapsed < MaxElapsed
    /\ LET a == tasks[t]
           m0 == [Machine EXCEPT !.elapsed = @ + PollInterval]
           goes_on == a.is_playing /\ a.is_connected
           m1 == IF goes_on THEN [m0 EXCEPT !.tasks[t].phase = "polling"]
                 ELSE [poll_exit([m0 EXCEPT !.tasks[t] = DeadTask], a) EXCEPT !.err = FALSE]
       IN /\ ~m1.overflow
          /\ Commit(m1)
          /\ last' = [NoLast EXCEPT
                  !.kind = "poll", !.op = "poll", !.task = t,
                  !.is_playing = a.is_playing, !.is_connected = a.is_connected,
                  !.exited = ~goes_on, !.pre = Snap(Machine), !.calls = m1.calls]
    /\ UNCHANGED conversations
    /\ UNCHANGED side_vars

\* PollWake for runs of any length: elapsed is counted up to MaxElapsed and
\* stays there, so the step is never held back by the bound.
PollWakeOn(t) ==
    /\ tasks[t].phase = "sleeping"
    /\ LET a == tasks[t]
           m0 == [Machine EXCEPT !.elapsed = Min(MaxElapsed, @ + PollInterval)]
           goes_on == a.is_playing /\ a.is_connected
           m1 == IF goes_on THEN [m0 EXCEPT !.tasks[t].phase = "polling"]
                 ELSE [poll_exit([m0 EXCEPT !.tasks[t] = DeadTask], a) EXCEPT !.err = FALSE]
       IN /\ ~m1.overflow
          /\ Commit(m1)
          /\ last' = [NoLast EXCEPT
                  !.kind = "poll", !.op = "poll", !.task = t,
                  !.is_playing = a.is_playing, !.is_connected = a.is_connected,
                  !.exited = ~goes_on, !.pre = Snap(Machine), !.calls = m1.calls]
    /\ UNCHANGED conversations
    /\ UNCHANGED side_vars

\* ------------------------------------------------------- the environment
\* The streamed track comes to its end.
EnvTrackEnd ==
    /\ stream # NoMedia
    /\ stream' = NoMedia
    /\ last' = [NoLast EXCEPT !.kind = "env"]
    /\ UNCHANGED <<queue, elapsed, poll_task, tasks, conn, media_players, player_row,
                   conversations>>
    /\ UNCHANGED side_vars

\* The voice connection is lost; the audio may or may not stop with it.
EnvDisconnect ==
    /\ conn
    /\ conn' = FALSE
    /\ \E s \in {stream, NoMedia} : stream' = s
    /\ last' = [NoLast EXCEPT !.kind = "env"]
    /\ UNCHANGED <<queue, elapsed, poll_task, tasks, media_players, player_row,
                   conversations>>
    /\ UNCHANGED side_vars

\* ------------------------------------------ Bot.platform_on_ready (main.py)
\* The guild has one voice client.  The modelled player is that of voice
\* channel 1; a second player, of voice channel 2, is kept as its stored
\* queue (empty: no row), whether it is in media_players with a poll task,
\* and the Transport calls made for it.  channel is the voice channel the
\* voice client is in while conn holds.
OtherMedia == "https://example.com/other.mp3"
NoOther == [row |-> <<>>, started |-> FALSE, channel |-> 1]

\* Platform.join_audio for a given voice channel: nothing when the voice
\* client is in that channel; else it leaves the channel it is in, which
\* ends the stream, and connects.
join_audio_channel(st, channel) ==
    IF st.m.conn /\ st.o.channel = channel THEN st
    ELSE [m |-> [st.m EXCEPT !.conn = TRUE, !.stream = NoMedia],
          o |-> [st.o EXCEPT !.channel = channel]]

\* MediaPlayer.start of the modelled player: join_audio, the player loaded,
\* then play().
start(st) ==
    LET st1 == join_audio_channel(st, 1)
    IN [st1 EXCEPT !.m = play(load_media_player(st1.m))]

\* MediaPlayer.start of the second player: play() streams the head of its
\* queue unless the voice client is playing, and starts its poll task.
start_other(st) ==
    LET st1 == join_audio_channel(st, 2)
    IN IF is_playing(st1.m) \/ st1.o.row = <<>> THEN st1
       ELSE [m |-> Call([st1.m EXCEPT !.stream = st1.o.row[1]], <<"play", st1.o.row[1]>>),
             o |-> [st1.o EXCEPT !.started = TRUE]]

\* Storage.load_all_media_players makes a player of every row through
\* load_media_player, in the order of the query; then every player of
\* media_players is started, in the order they were put there.
platform_on_ready(st, first) ==
    LET st1 == [st EXCEPT !.m = IF st.m.row.present THEN load_media_player(st.m) ELSE st.m]
        has == st1.m.players[PlayerHash] # NoInstance
        has_other == st1.o.row # <<>>
    IN IF first = 1
       THEN LET st2 == IF has THEN start(st1) ELSE st1
            IN IF has_other /\ ~st2.m.err THEN start_other(st2) ELSE st2
       ELSE LET st2 == IF has_other THEN start_other(st1) ELSE st1
            IN IF has THEN start(st2) ELSE st2

\* The Transport signals ready to the bot that was started.
PlatformOnReady(first) ==
    /\ ~bot.ready
    /\ LET st == platform_on_ready([m |-> Machine, o |-> second], first)
       IN /\ ~st.m.overflow
          /\ Commit([st.m EXCEPT !.err = FALSE])
          /\ second' = st.o
          /\ last' = [NoLast EXCEPT !.kind = "ready", !.index = first, !.pre = Snap(Machine),
                                    !.calls = st.m.calls,
                                    !.outcome = IF st.m.err THEN "raised" ELSE "ended"]
    /\ bot' = [bot EXCEPT !.ready = TRUE]
    /\ UNCHANGED <<conversations, loads, ops, pending, rec, out, registries, instances>>

\* ------------------------------------- Bot.load_media_player, call by call
\* A call runs to its one await, Storage.load_media_player, and returns
\* when that is done; other calls run in between.
LoadBegin(c, h) ==
    /\ loads[c].pc = "idle"
    /\ LET m == setdefault_media_player(Machine, h)
       IN /\ Commit(m)
          /\ loads' = [loads EXCEPT ![c] = [pc |-> "loading", hash |-> h,
                                            player |-> m.players[h]]]
    /\ last' = [NoLast EXCEPT !.kind = "load"]
    /\ UNCHANGED <<conversations, ops, pending, rec, out, registries, instances, bot, second>>

LoadEnd(c) ==
    /\ loads[c].pc = "loading"
    /\ Commit(IF loads[c].hash = PlayerHash THEN storage_load_media_player(Machine)
              ELSE Machine)
    /\ loads' = [loads EXCEPT ![c].pc = "returned"]
    /\ last' = [NoLast EXCEPT !.kind = "load"]
    /\ UNCHANGED <<conversations, ops, pending, rec, out, registries, instances, bot, second>>

\* The caller is done with the player it was given.
LoadDone(c) ==
    /\ loads[c].pc = "returned"
    /\ loads' = [loads EXCEPT ![c] = NoLoad]
    /\ last' = [NoLast EXCEPT !.kind = "load"]
    /\ UNCHANGED <<queue, elapsed, poll_task, tasks, stream, conn, media_players,
                   player_row, conversations, ops, pending, rec, out, registries, instances,
                   bot, second>>

\* ------------------------------- MediaPlayer operations, await by await
\* An operation runs from one await to the next as one step; between two
\* steps of one runner the other runner may take steps of its own.  The
\* awaits kept are the is_playing() poll at the head of stop() and of
\* play(), and the save() that ends enqueue() and next().
Suspend(r, pc, op) == ops' = [ops EXCEPT ![r] = [pc |-> pc, op |-> op]]
Return(r) == ops' = [ops EXCEPT ![r] = NoOp]
AsyncLast(r, op, m) ==
    last' = [NoLast EXCEPT !.kind = "async", !.name = r, !.op = op, !.outcome = ops[r].pc,
                           !.pre = Snap(Machine), !.calls = m.calls]

\* The play command: join_audio, the player loaded, then enqueue() up to
\* its first await (lines 177-180).
AsyncEnqueueBegin(media) ==
    /\ ops["command"].pc = "idle"
    /\ Len(queue) < MaxQueue
    /\ LET m0 == load_media_player(platform_join_audio(Machine))
           m1 == [m0 EXCEPT !.queue = Append(@, media)]
       IN /\ Len(m1.queue) <= MaxQueue
          /\ Commit(m1)
          /\ Suspend("command", IF Len(m1.queue) = 1 THEN "play" ELSE "save", "enqueue")
          /\ AsyncLast("command", "enqueue", m1)
    /\ UNCHANGED <<conversations, loads, pending, rec, out, registries, instances, bot, second>>

\* poll() lines 110-123: the sleep ends, elapsed grows, and the loop goes on
\* or is left for stop() or next(), up to the await at the head of stop().
AsyncPollWake(t) ==
    /\ tasks[t].phase = "sleeping"
    /\ elapsed < MaxElapsed
    /\ LET a == tasks[t]
           m0 == [Machine EXCEPT !.elapsed = @ + PollInterval]
           goes_on == a.is_playing /\ a.is_connected
       IN IF goes_on
          THEN /\ Commit([m0 EXCEPT !.tasks[t].phase = "polling"])
               /\ UNCHANGED ops
               /\ AsyncLast("loop", "poll", m0)
          ELSE /\ ops["loop"].pc = "idle"
               /\ Commit([m0 EXCEPT !.tasks[t] = DeadTask, !.poll_task = NoTask])
               /\ Suspend("loop", "stop", IF ~a.is_connected THEN "stop" ELSE "next")
               /\ AsyncLast("loop", IF ~a.is_connected THEN "stop" ELSE "next", m0)
    /\ UNCHANGED <<conversations, loads, pending, rec, out, registries, instances, bot, second>>

\* stop() from its is_playing() poll to its end; next() goes on to line 140
\* and into play().
AsyncStop(r) ==
    /\ ops[r].pc = "stop"
    /\ LET m1 == stop(Machine)
           done == m1.err \/ ops[r].op = "stop" \/ m1.queue = <<>>
           m2 == IF done THEN [m1 EXCEPT !.err = FALSE]
                 ELSE [m1 EXCEPT !.queue = Tail(@)]
       IN /\ Commit(m2)
          /\ IF done THEN Return(r) ELSE Suspend(r, "play", ops[r].op)
          /\ AsyncLast(r, ops[r].op, m2)
    /\ UNCHANGED <<conversations, loads, pending, rec, out, registries, instances, bot, second>>

\* play() from its is_playing() poll to its end.
AsyncPlay(r) ==
    /\ ops[r].pc = "play"
    /\ LET m1 == play(Machine)
       IN /\ ~m1.overflow
          /\ Commit([m1 EXCEPT !.err = FALSE])
          /\ IF m1.err THEN Return(r) ELSE Suspend(r, "save", ops[r].op)
          /\ AsyncLast(r, ops[r].op, m1)
    /\ UNCHANGED <<conversations, loads, pending, rec, out, registries, instances, bot, second>>

\* The save() that ends enqueue() and next().
AsyncSave(r) ==
    /\ ops[r].pc = "save"
    /\ LET m1 == media_player_save(Machine)
       IN /\ Commit(m1)
          /\ Return(r)
          /\ AsyncLast(r, ops[r].op, m1)
    /\ UNCHANGED <<conversations, loads, pending, rec, out, registries, instances, bot, second>>

\* ------------------------------------------- the Data methods, applied
NoOut == [kind |-> "", before |-> NoRecord, text |-> <<>>, other |-> NoRecord,
          hash |-> <<>>, other_hash |-> <<>>]

UnchangedBot ==
    UNCHANGED <<queue, elapsed, poll_task, tasks, stream, conn, media_players, player_row,
                conversations, last, loads, ops, pending>>

\* r.update_from_persist_str(r.persist_str())
DataRestore ==
    /\ out.kind # "restore"
    /\ rec' = update_from_persist_str(rec, persist_str(rec))
    /\ out' = [NoOut EXCEPT !.kind = "restore", !.before = rec, !.text = persist_str(rec)]
    /\ UnchangedBot
    /\ UNCHANGED <<registries, instances, bot, second>>

\* r.update_from_persist_str(s.persist_str()), s a record of the same class.
DataRestoreFrom(v) ==
    /\ out.kind = ""
    /\ LET s == [rec EXCEPT !.v = v] IN
        /\ rec' = update_from_persist_str(rec, persist_str(s))
        /\ out' = [NoOut EXCEPT !.kind = "restore_from", !.before = rec, !.other = s,
                                !.text = persist_str(s)]
    /\ UnchangedBot
    /\ UNCHANGED <<registries, instances, bot, second>>

\* r.hash() and s.hash(), s a record with the same fields marked hash.
DataHash(order, v) ==
    /\ out.kind = ""
    /\ LET s == [rec EXCEPT !.order = order, !.v = v] IN
        out' = [NoOut EXCEPT !.kind = "hash", !.before = rec, !.other = s,
                             !.hash = hash(rec), !.other_hash = hash(s)]
    /\ UNCHANGED rec
    /\ UnchangedBot
    /\ UNCHANGED <<registries, instances, bot, second>>

\* ------------------------------------------------------ the registries
\* Command, Platform, Storage and Integration each keep a registry that
\* __init_subclass__ fills when a subclass is defined.
Kinds == {"command", "platform", "storage", "integration"}
RegNames == {"x"}
NoName == ""
NoClass == 0
ClassIds == 1..MaxClasses

\* A registration that replaces the class registered under the name.
RegisterOverwrites(reg, name, cls) ==
    IF name = NoName THEN [raised |-> TRUE, reg |-> reg]
    ELSE [raised |-> FALSE, reg |-> [reg EXCEPT ![name] = cls]]

\* __init_subclass__: the name is set, the name is not registered yet, and
\* only then registry[name] = cls.
register(reg, name, cls) ==
    IF name = NoName THEN [raised |-> TRUE, reg |-> reg]
    ELSE IF reg[name] # NoClass THEN [raised |-> TRUE, reg |-> reg]
    ELSE [raised |-> FALSE, reg |-> [reg EXCEPT ![name] = cls]]

\* A class statement: class cls(Base) with the given name.
Register(kind, name, cls) ==
    /\ LET r == register(registries[kind], name, cls) IN
        /\ registries' = [registries EXCEPT ![kind] = r.reg]
        /\ last' = [NoLast EXCEPT !.kind = "register", !.words = <<kind, name>>, !.index = cls,
                                  !.outcome = IF r.raised THEN "raised" ELSE "registered"]
    /\ UNCHANGED <<queue, elapsed, poll_task, tasks, stream, conn, media_players, player_row,
                   conversations, loads, ops, pending, rec, out, instances, bot, second>>

\* registry[name](**kwargs), as in create_from_configuration; a name that
\* is not registered is a KeyError.
Construct(kind, name) ==
    /\ instances' = IF registries[kind][name] = NoClass THEN instances
                    ELSE [instances EXCEPT ![kind] = registries[kind][name]]
    /\ last' = [NoLast EXCEPT !.kind = "construct", !.words = <<kind, name>>,
                              !.index = registries[kind][name],
                              !.outcome = IF registries[kind][name] = NoClass THEN "raised"
                                          ELSE "constructed"]
    /\ UNCHANGED <<queue, elapsed, poll_task, tasks, stream, conn, media_players, player_row,
                   conversations, loads, ops, pending, rec, out, registries, bot, second>>

InitBot ==
    /\ queue = <<>>
    /\ elapsed = 0
    /\ poll_task = NoTask
    /\ tasks = [t \in TaskIds |-> DeadTask]
    /\ stream = NoMedia
    /\ conn = FALSE
    /\ media_players = [h \in PlayerHashes |-> NoInstance]
    /\ loads = [c \in Callers |-> NoLoad]
    /\ ops = [r \in Runners |-> NoOp]
    /\ pending = [c \in Calls |-> NoCall]
    /\ player_row = NoPlayerRow
    /\ conversations = [h \in ContextHashes |-> NoConversation]
    /\ last = NoLast

\* Bot.create_from_configuration: the integrations the configuration names
\* are constructed and handed to Bot.__init__.
BotMessages ==
    {<<"help">>, <<"join">>, <<"play", UrlMp3>>, <<"play", UrlYt>>, <<"yt", "q">>, <<"1">>,
     <<"next">>, <<"skip">>, <<"skip", "2">>}
CreateFromConfiguration(names) ==
    /\ ~bot.created
    /\ bot' = [created |-> TRUE, ready |-> TRUE, integrations |-> names]
    /\ last' = [NoLast EXCEPT !.kind = "create"]
    /\ UNCHANGED <<queue, elapsed, poll_task, tasks, stream, conn, media_players, player_row,
                   conversations, loads, ops, pending, rec, out, registries, instances, second>>

InitRegistries ==
    /\ registries = [k \in Kinds |-> [n \in RegNames |-> NoClass]]
    /\ instances = [k \in Kinds |-> NoClass]

Init ==
    InitBot /\ rec = NoRecord /\ out = NoOut /\ InitRegistries /\ bot = FullBot
        /\ second = NoOther

InitData ==
    InitBot /\ rec \in Records /\ out = NoOut /\ InitRegistries /\ bot = FullBot
        /\ second = NoOther

InitConfiguration ==
    InitBot /\ rec = NoRecord /\ out = NoOut /\ InitRegistries /\ bot = NoBot
        /\ second = NoOther

\* A bot that was started and is not ready yet, over a Store that holds the
\* rows an earlier run left: the players and the voice connection are as
\* new, the rows are any the save callback writes.
StoredQueues ==
    {q \in UNION {[1..n -> {UrlMp3, UrlDir}] : n \in 1..MaxQueue} : TRUE}
InitStartup ==
    /\ queue = <<>>
    /\ elapsed = 0
    /\ poll_task = NoTask
    /\ tasks = [t \in TaskIds |-> DeadTask]
    /\ stream = NoMedia
    /\ conn = FALSE
    /\ media_players = [h \in PlayerHashes |-> NoInstance]
    /\ loads = [c \in Callers |-> NoLoad]
    /\ ops = [r \in Runners |-> NoOp]
    /\ pending = [c \in Calls |-> NoCall]
    /\ conversations = [h \in ContextHashes |-> NoConversation]
    /\ last = NoLast
    /\ rec = NoRecord /\ out = NoOut /\ InitRegistries
    /\ bot = [FullBot EXCEPT !.ready = FALSE]
    /\ player_row \in {NoPlayerRow} \cup
            {[present |-> TRUE, queue |-> q, elapsed |-> e] : q \in StoredQueues, e \in 0..MaxElapsed}
    /\ second \in {[NoOther EXCEPT !.row = q] : q \in {<<>>, <<OtherMedia>>}}

NextData ==
    \/ DataRestore
    \/ \E v \in [FieldNames -> FieldValues] : DataRestoreFrom(v)
    \/ \E order \in FieldOrders, v \in [FieldNames -> FieldValues] : DataHash(order, v)

SpecData == InitData /\ [][NextData]_vars

NextRegistry ==
    \/ \E kind \in Kinds, name \in RegNames \cup {NoName}, cls \in ClassIds :
           Register(kind, name, cls)
    \/ \E kind \in Kinds, name \in RegNames : Construct(kind, name)

SpecRegistry == Init /\ [][NextRegistry]_vars

NextBot ==
    \/ \E names \in SUBSET IntegrationNames : CreateFromConfiguration(names)
    \/ \E words \in BotMessages, send_ok \in BOOLEAN, found \in SearchSizes :
           ProcessMessage(1, words, TRUE, send_ok, found)
    \/ EnvTrackEnd

SpecBot == InitConfiguration /\ [][NextBot]_vars

NextCorrupt ==
    \/ \E author \in Authors, words \in Messages, in_voice \in BOOLEAN, send_ok \in BOOLEAN :
           \E found \in IF words = <<"yt", "q">> THEN SearchSizes ELSE {0} :
               ProcessMessage(author, words, in_voice, send_ok, found)
    \/ \E author \in Authors : EnvCorruptRow(author)

SpecCorrupt == Init /\ [][NextCorrupt]_vars

NextStartup ==
    \/ \E first \in {1, 2} : PlatformOnReady(first)
    \/ \E t \in TaskIds : PollRead(t)
    \/ \E t \in TaskIds : PollWake(t)
    \/ EnvTrackEnd
    \/ EnvDisconnect

SpecStartup == InitStartup /\ [][NextStartup]_vars

Next ==
    \E author \in Authors, words \in Messages, in_voice \in BOOLEAN, send_ok \in BOOLEAN :
        \E found \in IF words = <<"yt", "q">> THEN SearchSizes ELSE {0} :
            ProcessMessage(author, words, in_voice, send_ok, found)

Spec == Init /\ [][Next]_vars

\* The player with room for a second poll task: play() can run while the
\* task of an earlier play() has not yet left its loop.
TaskMessages == {<<"join">>, <<"skip">>, <<"play", UrlMp3>>, <<"play", UrlDir>>}

InitTasks ==
    /\ queue = <<>>
    /\ elapsed = 0
    /\ poll_task = NoTask
    /\ tasks = [t \in TaskSlots |-> DeadTask]
    /\ stream = NoMedia
    /\ conn = FALSE
    /\ media_players = [h \in PlayerHashes |-> NoInstance]
    /\ loads = [c \in Callers |-> NoLoad]
    /\ ops = [r \in Runners |-> NoOp]
    /\ pending = [c \in Calls |-> NoCall]
    /\ player_row = NoPlayerRow
    /\ conversations = [h \in ContextHashes |-> NoConversation]
    /\ last = NoLast
    /\ rec = NoRecord /\ out = NoOut /\ InitRegistries /\ bot = FullBot
    /\ second = NoOther

NextTasks ==
    \/ \E words \in TaskMessages : ProcessMessage(1, words, TRUE, TRUE, 0)
    \/ \E t \in TaskSlots : PollRead(t)
    \/ \E t \in TaskSlots : PollWake(t)
    \/ EnvTrackEnd

SpecTasks == InitTasks /\ [][NextTasks]_vars

\* The two search conversations, yt and cw, with searches that find up to
\* MaxFound results.
SearchFound == 0..MaxFound
SearchMessages ==
    {<<"yt", "q">>, <<"cw", "q">>, <<"next">>, <<"prev">>, <<"cancel">>, <<"bogus">>,
     <<"play", "0">>, <<"play", "1">>, <<"play", "2">>, <<"play", "3">>}

NextSearch ==
    \E words \in SearchMessages :
        \E found \in IF words[1] \in {"yt", "cw"} THEN SearchFound ELSE {0} :
            ProcessMessage(1, words, TRUE, TRUE, found)

SpecSearch == Init /\ [][NextSearch]_vars

\* A player left to itself: the queue the commands have built is streaming
\* from its head, the poll task runs, the row is saved, and no command and
\* no disconnection follows.  The poll task is scheduled again and again,
\* and every track comes to its end.
DrainMedia == {UrlMp3, UrlDir}
DrainQueues == UNION {[1..n -> DrainMedia] : n \in 1..MaxDrain}

InitDrain ==
    /\ queue \in DrainQueues
    /\ elapsed = 0
    /\ poll_task = 1
    /\ tasks = [t \in TaskIds |-> IF t = 1 THEN NewTask ELSE DeadTask]
    /\ stream = queue[1]
    /\ conn = TRUE
    /\ media_players = [h \in PlayerHashes |-> IF h = PlayerHash THEN 1 ELSE NoInstance]
    /\ loads = [c \in Callers |-> NoLoad]
    /\ ops = [r \in Runners |-> NoOp]
    /\ pending = [c \in Calls |-> NoCall]
    /\ player_row = [present |-> TRUE, queue |-> queue, elapsed |-> 0]
    /\ conversations = [h \in ContextHashes |-> NoConversation]
    /\ last = NoLast
    /\ rec = NoRecord /\ out = NoOut /\ InitRegistries /\ bot = FullBot
    /\ second = NoOther

NextDrain ==
    \/ \E t \in TaskIds : PollRead(t)
    \/ \E t \in TaskIds : PollWakeOn(t)
    \/ EnvTrackEnd

SpecDrain ==
    /\ InitDrain /\ [][NextDrain]_vars
    /\ \A t \in TaskIds : WF_vars(PollRead(t)) /\ WF_vars(PollWakeOn(t))
    /\ WF_vars(EnvTrackEnd)

NextPlayer ==
    \/ \E words \in PlayerMessages : ProcessMessage(1, words, TRUE, TRUE, 0)
    \/ CallClear
    \/ LeaveAudio
    \/ \E t \in TaskIds : PollRead(t)
    \/ \E t \in TaskIds : PollWake(t)
    \/ EnvTrackEnd
    \/ EnvDisconnect

SpecPlayer == Init /\ [][NextPlayer]_vars

NextLoad ==
    \/ \E c \in Callers, h \in PlayerHashes : LoadBegin(c, h)
    \/ \E c \in Callers : LoadEnd(c)
    \/ \E c \in Callers : LoadDone(c)

SpecLoad == Init /\ [][NextLoad]_vars

NextAsync ==
    \/ \E media \in AsyncMedia : AsyncEnqueueBegin(media)
    \/ ProcessMessage(1, <<"skip">>, TRUE, TRUE, 0)
    \/ \E t \in TaskIds : PollRead(t)
    \/ \E t \in TaskIds : AsyncPollWake(t)
    \/ \E r \in Runners : AsyncStop(r)
    \/ \E r \in Runners : AsyncPlay(r)
    \/ \E r \in Runners : AsyncSave(r)
    \/ EnvTrackEnd
    \/ EnvDisconnect

SpecAsync == Init /\ [][NextAsync]_vars

NextConv ==
    \/ \E c \in Calls, author \in Authors, words \in ConvMessages :
           \E found \in IF words = <<"yt", "q">> THEN SearchSizes ELSE {0} :
               MessageBegin(c, author, words, found)
    \/ \E c \in Calls : MessageEnd(c)

SpecConv == Init /\ [][NextConv]_vars

\* ------------------------------------------------------------ properties
\* What the step just taken did, read from its observation.
CountCalls(calls, kind) == Cardinality({i \in 1..Len(calls) : calls[i][1] = kind})
PlayCalls(calls) == SelectSeq(calls, LAMBDA c : c[1] = "play")
Enqueued == last.kind = "msg" /\ last.op = "enqueue"
Popped(index) == last.kind = "msg" /\ last.op = "pop" /\ last.index = index
Polled == last.kind = "poll"

\* C1: enqueue on an empty queue with the Transport not playing leaves the
\* queue holding the item, the Transport streaming it with a poll task, and
\* has called the Transport's play exactly once, for that item; enqueue on a
\* non-empty queue appends the item at the tail and calls no play.
C1_Enqueue ==
    Enqueued =>
        /\ (last.pre.queue = <<>> /\ last.pre.stream = NoMedia) =>
              /\ queue = <<last.media>>
              /\ stream = last.media
              /\ poll_task \in Live(tasks)
              /\ PlayCalls(last.calls) = << <<"play", last.media>> >>
        /\ (last.pre.queue # <<>>) =>
              /\ queue = Append(last.pre.queue, last.media)
              /\ PlayCalls(last.calls) = <<>>

C1_Witness ==
    /\ Enqueued
    /\ last.pre.queue = <<>> /\ last.pre.stream = NoMedia
    /\ queue = <<last.media>> /\ stream = last.media /\ poll_task \in Live(tasks)

\* C2: with the queue [a, b], the Transport streaming a and the poll task
\* running, pop(0) returns a, leaves the queue [b], and ends with the
\* Transport streaming b and a newly created poll task running.
C2_PopHead ==
    (/\ Popped(0)
     /\ Len(last.pre.queue) = 2
     /\ last.pre.stream = last.pre.queue[1]
     /\ last.pre.poll_task \in last.pre.live) =>
        /\ last.ret = last.pre.queue[1]
        /\ queue = <<last.pre.queue[2]>>
        /\ stream = last.pre.queue[2]
        /\ poll_task \in Live(tasks)
        /\ CountCalls(last.calls, "create_task") = 1

C2_Witness ==
    /\ Popped(0)
    /\ Len(last.pre.queue) = 2 /\ last.pre.queue[1] # last.pre.queue[2]
    /\ last.pre.stream = last.pre.queue[1] /\ last.pre.poll_task \in last.pre.live
    /\ last.ret = last.pre.queue[1] /\ stream = last.pre.queue[2]

\* C3: with the queue [a, b] and the Transport streaming a, pop(1) returns b,
\* leaves the queue [a], calls neither stop nor play on the Transport, neither
\* cancels nor creates a poll task, and a is still streaming.
C3_PopSecond ==
    (/\ Popped(1)
     /\ Len(last.pre.queue) = 2
     /\ last.pre.stream = last.pre.queue[1]) =>
        /\ last.ret = last.pre.queue[2]
        /\ queue = <<last.pre.queue[1]>>
        /\ \A kind \in {"stop", "play", "cancel", "create_task"} :
              CountCalls(last.calls, kind) = 0
        /\ poll_task = last.pre.poll_task
        /\ Live(tasks) = last.pre.live
        /\ stream = last.pre.stream

C3_Witness ==
    /\ Popped(1)
    /\ Len(last.pre.queue) = 2 /\ last.pre.queue[1] # last.pre.queue[2]
    /\ last.pre.stream = last.pre.queue[1] /\ last.pre.poll_task \in last.pre.live
    /\ last.ret = last.pre.queue[2] /\ queue = <<last.pre.queue[1]>>

\* C4: the poll that reports is_connected false (every poll before it having
\* reported playing and connected, or the loop would have ended) ends the
\* loop, asks the Transport to stop, resets elapsed to zero and leaves the
\* queue as it was, all in that same poll.
C4_DisconnectStops ==
    (Polled /\ ~last.is_connected) =>
        /\ last.exited
        /\ tasks[last.task].phase = "none"
        /\ CountCalls(last.calls, "stop") = 1
        /\ elapsed = 0
        /\ stream = NoMedia
        /\ queue = last.pre.queue

\* The poll that reports the disconnection ends the loop with the Transport
\* no longer playing: stop() returns at once, and elapsed keeps its value.
C4_Diverges ==
    /\ Polled /\ ~last.is_connected /\ last.exited
    /\ CountCalls(last.calls, "stop") = 0
    /\ elapsed = last.pre.elapsed + PollInterval
    /\ queue = last.pre.queue

\* C5: with the Transport connected, the first poll that reports is_playing
\* false ends the loop and removes the head of the queue, and the former
\* second item, if any, is streaming with a newly created poll task; a poll
\* that reports playing and connected leaves the loop running and the queue
\* as it was.
C5_TrackEndAdvances ==
    /\ (Polled /\ last.is_connected /\ ~last.is_playing /\ last.pre.conn) =>
          /\ last.exited
          /\ queue = IF last.pre.queue = <<>> THEN <<>> ELSE Tail(last.pre.queue)
          /\ Len(last.pre.queue) >= 2 =>
                /\ stream = last.pre.queue[2]
                /\ poll_task \in Live(tasks)
                /\ CountCalls(last.calls, "create_task") = 1
    /\ (Polled /\ last.is_connected /\ last.is_playing) =>
          /\ ~last.exited
          /\ queue = last.pre.queue

C5_Witness ==
    /\ Polled /\ last.is_connected /\ ~last.is_playing /\ last.exited
    /\ Len(last.pre.queue) = 2 /\ last.pre.queue[1] # last.pre.queue[2]
    /\ queue = <<last.pre.queue[2]>> /\ stream = last.pre.queue[2]

Handled == last.kind = "msg"
Raised == last.outcome \in {"raised", "escaped"}

\* C6: after a message whose command returned a truthy value, the Store
\* holds a conversation row for the context hash with the command's name
\* and its serialised data; the next message with that context hash is
\* handled by a command restored from the row, with that name and exactly
\* that data, whatever its first word is.
C6_Saved ==
    (Handled /\ last.outcome = "continued") =>
        /\ RowOf(last.author).present
        /\ RowOf(last.author).command_name = last.name
        /\ RowOf(last.author).command_data = json(last.name, last.data_out)

C6_Restored ==
    (/\ Handled /\ last.outcome = "continued"
     /\ last'.kind = "msg" /\ last'.author = last.author) =>
        /\ last'.restored
        /\ last'.name = last.name
        /\ last'.data_in = last.data_out

\* C6, both halves: the row saved after a truthy return, and the next
\* message of the context hash handled by the command restored from it.
C6_Continue == [](C6_Saved) /\ [][C6_Restored]_vars

C6_Witness ==
    /\ Handled /\ last.restored
    /\ last.words = <<"help">> /\ last.name = "yt"
    /\ last.data_in.state = "SearchResults"
    /\ last.outcome = "continued"

\* C7: a message whose command returned a falsy value leaves no conversation
\* row for its context hash and changes no other row; when there was no row,
\* the delete changes nothing and raises nothing.
C7_Ended ==
    [][(last'.kind = "msg" /\ last'.outcome = "ended") =>
          /\ ~conversations'[HashOf(last'.author)].present
          /\ \A h \in ContextHashes \ {HashOf(last'.author)} :
                conversations'[h] = conversations[h]
          /\ ~conversations[HashOf(last'.author)].present =>
                conversations' = conversations]_vars

C7_Witness ==
    /\ Handled /\ last.restored /\ last.name = "yt"
    /\ last.outcome = "ended"
    /\ ~RowOf(last.author).present

\* C8: when the command's process_message raises, process_message sends the
\* diagnostic response, deletes the conversation row of the context hash,
\* and returns without the exception leaving it.
C8_RaiseTornDown ==
    (Handled /\ last.name \in Registry /\ Raised) =>
        /\ last.outcome = "raised"
        /\ last.responses # <<>> /\ last.responses[Len(last.responses)] = "diagnostic"
        /\ ~RowOf(last.author).present

\* The command of a stored conversation raises and the diagnostic cannot be
\* sent: the exception leaves process_message and the row stays.
C8_Diverges ==
    /\ Handled /\ last.restored /\ last.outcome = "escaped"
    /\ "diagnostic" \notin {last.responses[i] : i \in 1..Len(last.responses)}
    /\ RowOf(last.author).present

\* C9: the message "play https://example.com/a.mp3", with no stored
\* conversation, is handled by the play command, which enqueues one Media
\* with that url; afterwards there is no conversation row, and the
\* media-player row holds the queue, that one item on a player that was empty.
C9_PlayUrl ==
    (Handled /\ last.words = <<"play", UrlMp3>> /\ ~last.restored) =>
        /\ last.name = "play"
        /\ last.op = "enqueue" /\ last.media = UrlMp3
        /\ queue = Append(last.pre.queue, UrlMp3)
        /\ ~RowOf(last.author).present
        /\ player_row.present /\ player_row.queue = queue
        /\ last.pre.queue = <<>> => player_row.queue = <<UrlMp3>>

\* The message makes the play command raise before it enqueues anything.
C9_Diverges ==
    /\ Handled /\ last.words = <<"play", UrlMp3>> /\ ~last.restored
    /\ last.name = "play" /\ last.outcome = "raised"
    /\ last.op = "" /\ queue = <<>> /\ ~player_row.present

\* C10: with no stored conversation, the command is the one registered under
\* the first word of the message, constructed with its default data; when
\* the first word is no registered name, resolution raises, no command runs
\* and no conversation row is created.
C10_Resolution ==
    (Handled /\ ~last.restored /\ last.words # <<>>) =>
        IF First(last.words) \in Registry
        THEN /\ last.name = First(last.words)
             /\ last.data_in = DefaultData(First(last.words))
        ELSE /\ Raised
             /\ last.op = ""
             /\ \A i \in 1..Len(last.responses) : last.responses[i] = "diagnostic"
             /\ ~RowOf(last.author).present

C10_Witness ==
    /\ Handled /\ ~last.restored /\ last.words = <<"bogus">>
    /\ last.outcome = "raised" /\ last.responses = <<"diagnostic">>
    /\ ~RowOf(last.author).present

\* C11: every Bot.load_media_player call in flight or returned holds the
\* instance Bot.media_players maps its hash to, so calls with the same hash
\* hold the same instance, and the instance of a hash never changes once set.
C11_Held ==
    \A c \in Callers :
        loads[c].pc # "idle" =>
            /\ loads[c].player # NoInstance
            /\ loads[c].player = media_players[loads[c].hash]

C11_Kept ==
    \A h \in PlayerHashes :
        media_players[h] # NoInstance => media_players'[h] = media_players[h]

\* C11, both halves.
C11_OneInstance == [](C11_Held) /\ [][C11_Kept]_vars

C11_Witness ==
    /\ loads[1].pc = "returned" /\ loads[2].pc = "loading"
    /\ loads[1].hash = loads[2].hash /\ loads[3].pc = "returned"
    /\ loads[3].hash # loads[1].hash
    /\ loads[1].player = loads[2].player

\* An operation of the player that ran to its end.
Completed(op) == last.kind \in {"msg", "call"} /\ last.op = op /\ last.outcome = "ended"

\* C12: after a completed enqueue, pop or clear, the Store holds a row for
\* the player exactly when its queue is non-empty, the row's queue is the
\* player's queue, and the operation ended with a save.
C12_SavedAfterMutation ==
    (Completed("enqueue") \/ Completed("pop") \/ Completed("clear")) =>
        /\ player_row.present <=> (queue # <<>>)
        /\ player_row.present => player_row.queue = queue
        /\ last.calls # <<>> /\ last.calls[Len(last.calls)][1] = "save"

C12_Witness ==
    /\ Completed("pop")
    /\ last.pre.queue # <<>> /\ queue = <<>>
    /\ ~player_row.present

\* C13: at most one operation that changes the player's queue or elapsed
\* time is in flight at any time: the poll task's stop() or next() and a
\* command's enqueue() never run interleaved.
InFlight == {r \in Runners : ops[r].pc # "idle"}
C13_OneInFlight == Cardinality(InFlight) <= 1

\* next() has popped the head and waits in play() while enqueue() has
\* appended and waits for its save.
C13_Diverges ==
    /\ ops["loop"].op = "next" /\ ops["loop"].pc = "play"
    /\ ops["command"].op = "enqueue"

\* C14: a poll iteration that read the end of its track does not act once
\* a later play() has started a new track: when its next() comes to stop(),
\* nothing is being streamed and there is no poll task to cancel.
StaleStop == last.kind = "async" /\ last.name = "loop" /\ last.op = "next" /\ last.outcome = "stop"
C14_NoStaleIteration ==
    StaleStop => (last.pre.stream = NoMedia /\ last.pre.poll_task = NoTask)

\* The stale iteration stops the track that the later play() started and
\* cancels its poll task.
C14_Diverges ==
    /\ StaleStop
    /\ last.pre.stream # NoMedia
    /\ last.pre.poll_task # NoTask
    /\ CountCalls(last.calls, "stop") = 1
    /\ CountCalls(last.calls, "cancel") = 1

\* C15: the process_message calls of one context hash are serialised: a
\* call loads the conversation row only when no other call of that hash is
\* between its load and its save or delete.
CallsOf(h) == {c \in Calls : pending[c].pc # "idle" /\ HashOf(pending[c].author) = h}
C15_Serialised == \A h \in ContextHashes : Cardinality(CallsOf(h)) <= 1

\* A call is about to act on a row that another call has replaced since.
C15_Diverges ==
    \E c \in Calls :
        /\ pending[c].pc = "loaded"
        /\ ~pending[c].row.present
        /\ RowOf(pending[c].author).present
        /\ last.kind = "msg" /\ last.cont

\* C16: no failure in the handling of a message leaves process_message:
\* whatever raised, in the resolution of the command, in the command or in
\* the sending of a response, the call returns normally.
C16_Contained == Handled => last.outcome # "escaped"

\* The first word names no command and the diagnostic cannot be sent: the
\* exception of the except block leaves process_message.
C16_Diverges ==
    /\ Handled /\ ~last.restored /\ last.name \notin Registry
    /\ last.outcome = "escaped"
    /\ last.responses = <<>>

\* C17: r.update_from_persist_str(r.persist_str()) leaves r.persist_str()
\* as it was and every field not marked persist as it was; a restore from
\* any persisted text of the class changes persist fields only, and gives
\* them the persisted values.
C17_RestoreFixedPoint ==
    /\ out.kind = "restore" =>
          /\ persist_str(rec) = out.text
          /\ \A n \in FieldNames \ rec.persist : rec.v[n] = out.before.v[n]
          /\ rec = out.before
    /\ out.kind = "restore_from" =>
          /\ persist_str(rec) = out.text
          /\ \A n \in FieldNames \ rec.persist : rec.v[n] = out.before.v[n]
          /\ rec.order = out.before.order

C17_Witness ==
    /\ out.kind = "restore"
    /\ rec.persist = {"a", "c"}
    /\ rec.v["a"] = 1 /\ rec.v["c"] = None /\ rec.v["b"] = 0
    /\ out.text = <<<<"a", <<"number", 1>>>>, <<"c", <<"null">>>>>>

\* C18: two records whose hash fields hold equal values have equal hashes,
\* whatever the declaration order of their fields and whatever their other
\* fields hold.  (The Store and Bot.media_players are looked up by this hash
\* alone: conversations and media_players are functions of it.)
C18_HashOfHashFields ==
    (out.kind = "hash" /\ \A n \in out.before.hash : out.before.v[n] = out.other.v[n])
        => out.hash = out.other_hash

C18_Witness ==
    /\ out.kind = "hash"
    /\ out.before.hash = {"a", "b"}
    /\ out.before.order # out.other.order
    /\ out.before.v["a"] = out.other.v["a"] /\ out.before.v["b"] = out.other.v["b"]
    /\ out.before.v["c"] # out.other.v["c"]
    /\ out.hash = out.other_hash
    /\ out.hash = <<<<"a", <<"number", 0>>>>, <<"b", <<"null">>>>>>

\* C19: a class statement whose name is already in the registry of its base
\* class raises, the registry still maps the name to the first class, and
\* no instance is constructed by it.
C19_DuplicateKept ==
    \A k \in Kinds, n \in RegNames :
        (registries[k][n] # NoClass /\ last'.kind = "register" /\ last'.words = <<k, n>>) =>
            /\ last'.outcome = "raised"
            /\ registries'[k][n] = registries[k][n]
            /\ registries' = registries
            /\ instances' = instances
C19_DuplicateFails == [][C19_DuplicateKept]_vars

C19_Witness ==
    /\ last.kind = "register" /\ last.outcome = "raised"
    /\ last.words = <<"command", "x">> /\ last.index = 2
    /\ registries["command"]["x"] = 1
    /\ instances["command"] = NoClass

\* C20: a bot whose configuration lacks an integration that a command takes
\* as a parameter is never constructed: every constructed bot holds the
\* integrations of every registered command, so no message fails on them.
C20_FailsAtConstruction ==
    bot.created => \A name \in Registry : inject_integrations(name, bot.integrations)

\* The bot was built without youtube, and the play command fails when its
\* message is handled: nothing is enqueued and the user is sent a diagnostic.
C20_Diverges ==
    /\ bot.created /\ "youtube" \notin bot.integrations
    /\ Handled /\ last.name = "play" /\ last.outcome = "raised"
    /\ last.op = "" /\ last.responses = <<"diagnostic">>

\* C21: a message whose stored conversation row holds a malformed blob is
\* handled as if there were no row: by the command registered under its
\* first word, constructed with its default data.
C21_MalformedAsNotFound ==
    (Handled /\ last.malformed /\ last.words # <<>> /\ First(last.words) \in Registry) =>
        /\ last.name = First(last.words)
        /\ last.data_in = DefaultData(First(last.words))

\* The decoding error ends the handling of the message: no command runs,
\* the user is sent the diagnostic and the row is deleted.
C21_Diverges ==
    /\ Handled /\ last.malformed /\ last.words = <<"help">>
    /\ last.name = "" /\ last.outcome = "raised"
    /\ last.responses = <<"diagnostic">>
    /\ ~RowOf(last.author).present

\* C22: when the Transport has signalled ready, every player persisted in
\* the Store is in media_players with its stored queue, its head item is
\* what the voice client streams, in its channel, and its poll task runs.
C22_Resumed ==
    last.kind = "ready" =>
        /\ player_row.present =>
              /\ media_players[PlayerHash] # NoInstance
              /\ queue = player_row.queue
              /\ conn /\ second.channel = 1 /\ stream = queue[1]
              /\ poll_task # NoTask /\ tasks[poll_task].phase # "none"
        /\ second.row # <<>> =>
              /\ conn /\ second.channel = 2 /\ stream = second.row[1]
              /\ second.started

\* Two players of one guild were persisted: the one started second takes
\* the voice client, and the first, with its poll task running, streams
\* nothing of its own.
C22_Diverges ==
    /\ last.kind = "ready" /\ last.index = 1
    /\ player_row.present /\ second.row # <<>>
    /\ poll_task # NoTask
    /\ second.channel = 2 /\ stream = OtherMedia
    /\ PlayCalls(last.calls) = <<<<"play", queue[1]>>, <<"play", OtherMedia>>>>

\* What a direct call of play() did (the join command, after joining).
Played == last.kind = "msg" /\ last.op = "play"

\* C23: play() with the Transport already playing, or with an empty queue,
\* makes no Transport play call, creates no poll task and leaves the queue,
\* the stream and the poll task as they were; otherwise it asks the Transport
\* exactly once to stream the head of the queue and creates exactly one poll
\* task, the queue staying as it was.
C23_PlayFrameEffect ==
    Played =>
        /\ (last.pre.stream # NoMedia \/ last.pre.queue = <<>>) =>
              /\ PlayCalls(last.calls) = <<>>
              /\ CountCalls(last.calls, "create_task") = 0
              /\ queue = last.pre.queue
              /\ stream = last.pre.stream
              /\ poll_task = last.pre.poll_task
              /\ Live(tasks) = last.pre.live
        /\ (last.pre.stream = NoMedia /\ last.pre.queue # <<>>) =>
              /\ PlayCalls(last.calls) = << <<"play", last.pre.queue[1]>> >>
              /\ CountCalls(last.calls, "create_task") = 1
              /\ stream = last.pre.queue[1]
              /\ poll_task \in Live(tasks)
              /\ queue = last.pre.queue

\* play() found a queued item and a silent Transport, and streams the item.
C23_Witness ==
    /\ Played
    /\ last.pre.stream = NoMedia /\ last.pre.queue # <<>>
    /\ stream = last.pre.queue[1] /\ poll_task \in Live(tasks)

\* The poll task left its loop on a finished track and called next().
PollNext == Polled /\ last.exited /\ last.is_connected

\* C24: next() on a player streaming the head h of the queue [h, t1, ...]
\* (reached through pop(0)) asks the Transport once to stop, removes exactly h
\* from the queue, and then streams t1 with a poll task if the queue is still
\* non-empty, and otherwise leaves the player idle, with no stream and no poll
\* task of its own; next() on an empty queue (reached from the poll task) makes no call
\* to the Transport or to the save callback and leaves the queue and the
\* stream as they were.
C24_NextAdvances ==
    /\ (/\ Popped(0)
        /\ last.pre.queue # <<>>
        /\ last.pre.stream = last.pre.queue[1]) =>
          /\ last.outcome = "ended"
          /\ CountCalls(last.calls, "stop") = 1
          /\ queue = Tail(last.pre.queue)
          /\ (Len(last.pre.queue) >= 2) =>
                /\ PlayCalls(last.calls) = << <<"play", last.pre.queue[2]>> >>
                /\ stream = last.pre.queue[2]
                /\ poll_task \in Live(tasks)
          /\ (Len(last.pre.queue) = 1) =>
                /\ PlayCalls(last.calls) = <<>>
                /\ stream = NoMedia
                /\ poll_task = NoTask
    /\ (PollNext /\ last.pre.queue = <<>>) =>
          /\ last.calls = <<>>
          /\ queue = <<>>
          /\ stream = last.pre.stream

\* next() stopped the head of a two-item queue and streams the second item.
C24_Witness ==
    /\ Popped(0)
    /\ Len(last.pre.queue) = 2 /\ last.pre.queue[1] # last.pre.queue[2]
    /\ last.pre.stream = last.pre.queue[1]
    /\ queue = <<last.pre.queue[2]>> /\ stream = last.pre.queue[2]
    /\ CountCalls(last.calls, "stop") = 1

\* What a direct call of stop() did (leave_audio, before leaving the channel).
Stopped == last.kind = "call" /\ last.op = "stop"

\* C25: stop() with the Transport not playing makes no call and leaves the
\* queue, elapsed and the poll task as they were; stop() with the Transport
\* playing completes having asked the Transport once to stop, with elapsed at
\* zero, the poll task cancelled and the queue as it was.
C25_StopFrameEffect ==
    Stopped =>
        /\ (last.pre.stream = NoMedia) =>
              /\ last.calls = <<>>
              /\ queue = last.pre.queue
              /\ elapsed = last.pre.elapsed
              /\ poll_task = last.pre.poll_task
              /\ Live(tasks) = last.pre.live
        /\ (last.pre.stream # NoMedia) =>
              /\ last.outcome = "ended"
              /\ CountCalls(last.calls, "stop") = 1
              /\ elapsed = 0
              /\ poll_task = NoTask
              /\ (last.pre.poll_task # NoTask) => tasks[last.pre.poll_task].phase = "none"
              /\ queue = last.pre.queue

\* stop() found the Transport playing and the queue empty: it raised before
\* cancelling, resetting or stopping anything.
C25_Diverges ==
    /\ Stopped
    /\ last.pre.stream # NoMedia /\ last.pre.queue = <<>>
    /\ last.outcome = "raised"
    /\ last.calls = <<>>
    /\ stream = last.pre.stream /\ elapsed = last.pre.elapsed
    /\ poll_task = last.pre.poll_task

\* A caller called clear() on the player.
Cleared == last.kind = "call" /\ last.op = "clear"

\* C26: whatever state the player was in when clear() was called, clear()
\* completes with the queue empty, the Transport not streaming, a save as
\* its last call, and no row for the player in the Store.
C26_ClearEmpties ==
    Cleared =>
        /\ last.outcome = "ended"
        /\ queue = <<>>
        /\ stream = NoMedia
        /\ last.calls # <<>> /\ last.calls[Len(last.calls)][1] = "save"
        /\ ~player_row.present

\* clear() found the Transport playing and the queue empty: its stop()
\* raised, the Transport still streams and nothing was saved.
C26_Diverges ==
    /\ Cleared
    /\ last.pre.stream # NoMedia /\ last.pre.queue = <<>>
    /\ last.outcome = "raised"
    /\ stream = last.pre.stream
    /\ CountCalls(last.calls, "save") = 0

\* C27: a poll that reports is_connected false, whatever it reports for
\* is_playing, ends the loop with the full teardown of stop() and without
\* next(): the poll task is gone, nothing is streaming, elapsed is zero, and
\* the queue is as it was, no play call having been made.
C27_DisconnectWins ==
    \A reading \in BOOLEAN :
        (Polled /\ ~last.is_connected /\ last.is_playing = reading) =>
            /\ last.exited
            /\ poll_task = NoTask
            /\ stream = NoMedia
            /\ elapsed = 0
            /\ queue = last.pre.queue
            /\ PlayCalls(last.calls) = <<>>

\* The poll reported neither connected nor playing: the loop ended and the
\* queue was kept, but stop() returned at once and elapsed was not reset.
C27_Diverges ==
    /\ Polled /\ ~last.is_connected /\ ~last.is_playing
    /\ last.exited
    /\ last.calls = <<>>
    /\ elapsed > 0
    /\ queue = last.pre.queue /\ queue # <<>>

\* C28: a poll that reports both is_playing and is_connected adds exactly
\* one poll interval to elapsed; a poll that reports either of them false adds
\* nothing: elapsed is what it was before the poll, or zero where the poll's
\* stop() reset it.
C28_ElapsedCountsPlaying ==
    /\ (Polled /\ last.is_playing /\ last.is_connected) =>
          elapsed = last.pre.elapsed + PollInterval
    /\ (Polled /\ ~(last.is_playing /\ last.is_connected)) =>
          elapsed \in {last.pre.elapsed, 0}

\* The poll reported the track finished: elapsed grew by one interval all
\* the same, and the next track starts streaming with that elapsed time.
C28_Diverges ==
    /\ Polled /\ ~last.is_playing /\ last.is_connected
    /\ last.exited
    /\ elapsed = last.pre.elapsed + PollInterval
    /\ Len(last.pre.queue) = 2 /\ stream = last.pre.queue[2]

\* The step just taken called Bot.load_media_player and used the player.
Loaded == last.kind \in {"msg", "call"} /\ last.op # ""

\* C29: a call of Bot.load_media_player for a hash whose player is already
\* in media_players hands out that player with the queue and the elapsed
\* time it had in memory before the call.
C29_CachedUnchanged ==
    (Loaded /\ last.was.cached) =>
        /\ last.pre.queue = last.was.queue
        /\ last.pre.elapsed = last.was.elapsed

\* The cached player had counted elapsed time in memory; the call replaced
\* it by the elapsed time of the Store row.
C29_Diverges ==
    /\ Loaded /\ last.was.cached
    /\ last.pre.queue = last.was.queue
    /\ last.was.elapsed > 0 /\ last.pre.elapsed = 0

\* The two texts an error can be answered with: the formatted traceback the
\* except block sends, and the message text a BotCommandError carries.
Traceback == "diagnostic"
ErrorMessage == "message"

\* The play command was given something that is not a url: the command
\* raised on the user's input.
UserError ==
    /\ Handled /\ last.name = "play"
    /\ Len(last.words) >= 2 /\ ~ValidUrl(last.words[2])

\* C30: when a command raises on invalid user input, the last response sent
\* to the user is the error's message text and not a traceback, and the
\* Store holds no conversation for the hash.
C30_ReadableError ==
    UserError =>
        /\ last.responses # <<>>
        /\ last.responses[Len(last.responses)] = ErrorMessage
        /\ ~RowOf(last.author).present

\* The command raised on the user's input and the only response is the
\* traceback; the conversation is deleted.
C30_Diverges ==
    /\ UserError
    /\ last.outcome = "raised"
    /\ last.responses = <<Traceback>>
    /\ ~RowOf(last.author).present

\* C33: whenever the Transport is streaming, the queue is non-empty and the
\* streamed item is the head of the queue.
C33_StreamIsHead == (stream # NoMedia) => (queue # <<>> /\ stream = queue[1])

\* skip 0 has just removed the only item, pop(-1), without stopping it: the
\* Transport streams an item that is no longer in the queue.
C33_Diverges ==
    /\ Popped(-1)
    /\ last.outcome = "ended"
    /\ last.pre.queue = <<last.ret>> /\ last.pre.stream = last.ret
    /\ queue = <<>> /\ stream = last.ret
    /\ CountCalls(last.calls, "stop") = 0

\* C32: at most one poll task is alive at any time, and a poll task that is
\* alive is the one poll_task refers to.
C32_OnePollTask ==
    /\ Cardinality(Live(tasks)) <= 1
    /\ \A t \in Live(tasks) : poll_task = t

\* play() ran while the poll task of the finished track had not yet left its
\* loop: it created a second task, and poll_task no longer refers to the first.
C32_Diverges ==
    /\ Played
    /\ last.pre.poll_task \in last.pre.live
    /\ CountCalls(last.calls, "create_task") = 1
    /\ Cardinality(Live(tasks)) = 2
    /\ poll_task # last.pre.poll_task

\* C31: a poll task that leaves its loop on a finished track advances the
\* queue by exactly its head, and nothing is streaming at that moment: the
\* iteration never has to ask the Transport to stop an item in mid-stream.
C31_AdvanceOnEnd ==
    PollNext =>
        /\ last.pre.stream = NoMedia
        /\ CountCalls(last.calls, "stop") = 0
        /\ queue = IF last.pre.queue = <<>> THEN <<>> ELSE Tail(last.pre.queue)

\* The poll task had seen its track finished; by the time it woke, a command
\* had started the next item.  Its next() stopped that item in mid-stream and
\* removed it from the queue.
C31_Diverges ==
    /\ PollNext /\ ~last.is_playing
    /\ last.pre.queue # <<>> /\ last.pre.stream = last.pre.queue[1]
    /\ last.pre.poll_task \in last.pre.live /\ last.pre.poll_task # last.task
    /\ CountCalls(last.calls, "stop") = 1
    /\ queue = Tail(last.pre.queue)

\* C35: a step in which the Transport was asked to stream a queue item ends
\* with that item streaming and elapsed at zero.
C35_StartsAtZero ==
    (PlayCalls(last.calls) # <<>> /\ stream # NoMedia) => elapsed = 0

\* The poll task advanced to the second item after its track finished: the
\* item starts streaming with the elapsed time counted for the first.
C35_Diverges ==
    /\ PollNext
    /\ Len(last.pre.queue) = 2
    /\ PlayCalls(last.calls) = << <<"play", last.pre.queue[2]>> >>
    /\ stream = last.pre.queue[2]
    /\ elapsed > 0

\* The yt command handled the message without raising.
YtHandled == Handled /\ last.name = "yt" /\ ~Raised

\* C36: after a message the yt command handled, the conversation row is
\* kept exactly when the command's state is none of Selection, NoResults and
\* Cancelled; a message that leaves the state at SearchResults keeps the row.
C36_YtContinues ==
    YtHandled =>
        (RowOf(last.author).present <=>
            last.data_out.state \notin {"Selection", "NoResults", "Cancelled"})

\* play with an index outside the page: no video is selected, the state
\* stays SearchResults, nothing is sent, and the row is deleted.
C36_Diverges ==
    /\ YtHandled /\ last.restored
    /\ last.words = <<"play", "0">>
    /\ last.data_in.state = "SearchResults" /\ last.data_out.state = "SearchResults"
    /\ last.outcome = "ended"
    /\ last.responses = <<>>
    /\ ~RowOf(last.author).present

\* A search command, yt or cw, handled the message and shows results.
ShowsResults ==
    /\ Handled /\ last.name \in {"yt", "cw"} /\ ~Raised
    /\ last.data_out.state = "SearchResults"
    /\ last.data_out.search_results > 0

\* C37: while a search command shows non-empty results, page_number is
\* within 1..total_pages(), whatever next and prev messages came before.
C37_PageInRange ==
    ShowsResults =>
        /\ 1 <= last.data_out.page_number
        /\ last.data_out.page_number <= total_pages(last.data_out)

\* next on the last page: page_number goes one past total_pages() and the
\* page shown is empty.
C37_Diverges ==
    /\ ShowsResults /\ last.restored
    /\ last.words = <<"next">>
    /\ last.data_in.page_number = total_pages(last.data_in)
    /\ last.data_out.page_number = total_pages(last.data_out) + 1
    /\ PageLen(last.data_out) = 0

\* The cw command, showing search results, was sent play <n>.
CwPlay ==
    /\ Handled /\ last.name = "cw" /\ last.restored
    /\ last.data_in.state = "SearchResults"
    /\ Len(last.words) = 2 /\ last.words[1] = "play" /\ last.words[2] \in IntWords

\* C38: play <n> with n within 1..len(page()) ends the conversation in
\* Selection with the game of the n-th puzzle of the page fetched; with n
\* outside that range no game is fetched and the conversation continues in
\* SearchResults.
C38_CwPlaySelects ==
    CwPlay =>
        LET n == int(last.words[2])
            first == (last.data_in.page_number - 1) * PageSize
        IN IF 1 <= n /\ n <= PageLen(last.data_in)
           THEN /\ last.outcome = "ended"
                /\ last.data_out.state = "Selection"
                /\ last.data_out.game_url = first + n
           ELSE /\ last.outcome = "continued"
                /\ last.data_out.state = "SearchResults"
                /\ last.data_out.game_url = 0

\* play 3 on a page of two puzzles: nothing is selected, selection keeps
\* its default -1, and the game of page()[-2], the first puzzle, is fetched.
C38_Diverges ==
    /\ CwPlay
    /\ last.words = <<"play", "3">>
    /\ PageLen(last.data_in) = 2
    /\ last.data_out.selection = -1
    /\ last.data_out.state = "Selection"
    /\ last.data_out.game_url = 1
    /\ last.outcome = "ended"

\* leave_audio on a streaming player completes with the poll task cancelled,
\* elapsed at zero, the voice channel left, and the queue and its row as they
\* were.
C39_Left ==
    (Stopped /\ last.pre.stream # NoMedia) =>
        /\ last.outcome = "ended"
        /\ CountCalls(last.calls, "stop") = 1
        /\ poll_task = NoTask
        /\ (last.pre.poll_task # NoTask) => tasks[last.pre.poll_task].phase = "none"
        /\ elapsed = 0
        /\ ~conn /\ stream = NoMedia
        /\ queue = last.pre.queue
        /\ player_row.present /\ player_row.queue = queue

\* A join that follows a completed leave_audio streams the head of the
\* queue that leave_audio left.
C39_Resumed ==
    [][(/\ Stopped /\ last.outcome = "ended" /\ queue # <<>>
        /\ last'.kind = "msg" /\ last'.name = "join")
       => (queue' = queue /\ stream' = queue[1] /\ conn')]_vars

\* C39: leave_audio stops a streaming player (poll task cancelled, elapsed
\* reset) and leaves the voice channel, keeping the queue and its Store row,
\* and a join that follows resumes streaming from the same head item.
C39_LeaveThenJoin == [](C39_Left) /\ C39_Resumed

\* leave_audio on a player streaming with an empty queue: stop() raised, and
\* the voice channel was never left.
C39_Diverges ==
    /\ Stopped
    /\ last.pre.stream # NoMedia /\ last.pre.queue = <<>>
    /\ last.outcome = "raised"
    /\ conn /\ stream = last.pre.stream

\* Nothing is left: the queue is empty, the row is deleted, nothing streams
\* and no poll task is alive.
Drained ==
    /\ queue = <<>>
    /\ ~player_row.present
    /\ stream = NoMedia
    /\ poll_task = NoTask /\ Live(tasks) = {}

\* What streams is the head of the queue.
C34_StreamsHead == (stream # NoMedia) => (queue # <<>> /\ stream = queue[1])

\* The queue changes only by losing its head once nothing streams, and the
\* new head, if any, then streams.
C34_Advance ==
    [][(queue' # queue) =>
          /\ stream = NoMedia
          /\ queue' = Tail(queue)
          /\ (queue' # <<>>) => stream' = queue'[1]]_vars

====
